---------------------------- MODULE Spec2Model ----------------------------
(***************************************************************************)
(* Bitbucket pull-request metrics: the two-tier cache (cache.py), the      *)
(* fetch pipeline and the time-windowed metric engine (metrics.py), and    *)
(* the parts of the HTTP client they call (client.py).                     *)
(*                                                                         *)
(* Representation of time.  The program handles epoch milliseconds, which  *)
(* for present-day dates (about 1.7 * 10^12) exceed the integers TLC can   *)
(* compute with.  An instant is therefore the pair <<day, ms>> with        *)
(* epoch_ms = day * 86400000 + ms and 0 <= ms < 86400000; the order on     *)
(* pairs is the order on epoch milliseconds.  JSON null (Python None) is   *)
(* the empty tuple.                                                        *)
(***************************************************************************)
EXTENDS Integers, Sequences, FiniteSets, TLC

VARIABLES
    tz,          \* the process-local time zone (datetime.fromtimestamp uses it)
    server,      \* the server's pull requests: a sequence of ServerPR records
    pr_cache,    \* BitbucketCache.pr_cache: cache key -> entry
    cache_file,  \* BitbucketCache.cache_file: NULL or <<path>>
    fs,          \* the temp directory: path -> file
    last,        \* what the last operation did and returned
    stored,      \* history: key -> the entry last handed to put since cleanup
    faults,      \* the disk and network faults injected so far
    client,      \* the BitbucketClient object
    clock,       \* time.time(), in ticks
    threads,     \* the threads inside rate_limited_request, step by step
    sent,        \* history: the requests those threads have issued
    pager,       \* what the last run of the two paginators did
    call,        \* the calling thread inside a cold _fetch_pr_data
    pool,        \* the ThreadPoolExecutor of that call
    wire         \* history: the requests of that call, sent and answered

vars == <<tz, server, pr_cache, cache_file, fs, last, stored, faults,
          client, clock, threads, sent, pager, call, pool, wire>>

NULL == <<>>

(***************************************************************************)
(* Bounds of the model.                                                    *)
(***************************************************************************)
MaxMergedPRs == 3
MaxReviewPRs == 2
MaxFiles == 2
MaxFaults == 1
MaxWorkers == 2
MaxRequests == 2
MaxTicks == 3
MaxItems == 8
MaxPageLen == 2

(***************************************************************************)
(* Calendar and timestamps                                                 *)
(***************************************************************************)
MsPerHour == 60 * 60 * 1000
MsPerDay == 24 * MsPerHour

\* Python truthiness of a timestamp field: None and 0 are falsy.
Truthy(t) == t # NULL /\ t # <<0, 0>>

TsLeq(a, b) == a[1] < b[1] \/ (a[1] = b[1] /\ a[2] <= b[2])

\* start <= t <= end on epoch milliseconds
InRange(start, t, end) == TsLeq(start, t) /\ TsLeq(t, end)

\* calendar.isleap
IsLeap(y) == y % 4 = 0 /\ (y % 100 # 0 \/ y % 400 = 0)

\* Mutant of MonthRange: February has 28 days in every year.
MonthRangeNoLeap(y, m) ==
    CASE m \in {1, 3, 5, 7, 8, 10, 12} -> 31
      [] m \in {4, 6, 9, 11} -> 30
      [] OTHER -> 28

\* calendar.monthrange(year, month)[1]: the number of days of the month
MonthRange(y, m) ==
    CASE m \in {1, 3, 5, 7, 8, 10, 12} -> 31
      [] m \in {4, 6, 9, 11} -> 30
      [] OTHER -> IF IsLeap(y) THEN 29 ELSE 28

\* Days from 1970-01-01 to the civil date y-m-d (proleptic Gregorian), the
\* date part of parser.parse("y-m-dT...Z").timestamp().
DaysFromCivil(y, m, d) ==
    LET yy  == IF m <= 2 THEN y - 1 ELSE y
        era == yy \div 400
        yoe == yy - era * 400
        mp  == IF m > 2 THEN m - 3 ELSE m + 9
        doy == (153 * mp + 2) \div 5 + d - 1
        doe == yoe * 365 + yoe \div 4 - yoe \div 100 + doy
    IN  era * 146097 + doe - 719468

\* int(parser.parse(f"{y}-{m}-{d}T{h}:{mi}:{s}.{ms}Z").timestamp() * 1000)
ParseIsoUtc(y, m, d, h, mi, s, ms) ==
    <<DaysFromCivil(y, m, d), ((h * 60 + mi) * 60 + s) * 1000 + ms>>

\* start_date = f"{year}-{month}-01T00:00:00.000Z"
StartTimestamp(year, month) == ParseIsoUtc(year, month, 1, 0, 0, 0, 0)

\* end_date = f"{year}-{month}-{last_day}T23:59:59.999Z"
EndTimestamp(year, month) ==
    ParseIsoUtc(year, month, MonthRange(year, month), 23, 59, 59, 999)

\* t plus n milliseconds, -MsPerDay < n < MsPerDay
TsAdd(t, n) ==
    LET x == t[2] + n
    IN  <<t[1] + (x \div MsPerDay), x % MsPerDay>>

\* str.upper() on the state strings the server sends; a missing state is "".
Upper(s) ==
    CASE s = "merged" -> "MERGED"
      [] s = "Merged" -> "MERGED"
      [] s = "open" -> "OPEN"
      [] OTHER -> s


(***************************************************************************)
(* MetricsEngine: merged count (metrics.py 130-188)                        *)
(***************************************************************************)
\* Mutant of IsMergedInWindow: the state is compared without upper().
IsMergedInWindowCaseSensitive(pr, start_timestamp, end_timestamp) ==
    /\ Truthy(pr.closedDate)
    /\ InRange(start_timestamp, pr.closedDate, end_timestamp)
    /\ pr.state = "MERGED"

\* The predicate of the list comprehension at lines 176-181.
IsMergedInWindow(pr, start_timestamp, end_timestamp) ==
    /\ Truthy(pr.closedDate)
    /\ InRange(start_timestamp, pr.closedDate, end_timestamp)
    /\ Upper(pr.state) = "MERGED"

\* pr_count = len(filtered_prs)
MergedCount(detailed_prs, year, month) ==
    LET start_timestamp == StartTimestamp(year, month)
        end_timestamp   == EndTimestamp(year, month)
        Keep(pr) == IsMergedInWindow(pr, start_timestamp, end_timestamp)
    IN  Len(SelectSeq(detailed_prs, Keep))

(***************************************************************************)
(* MetricsEngine: average review time (metrics.py 190-287)                 *)
(***************************************************************************)
\* The years whose instants the model converts to Sydney time.
SydneyYears == 2024..2025

\* The first Sunday of a month; 1970-01-01 was a Thursday.
FirstSunday(y, m) == CHOOSE d \in 1..7 : (DaysFromCivil(y, m, d) + 4) % 7 = 0

\* Sydney's clocks change on the first Sunday of April (03:00 daylight
\* time, back to standard time) and of October (02:00 standard time, on to
\* daylight time): both are 16:00 UTC of the Saturday before.
SydneyChange(y, m) ==
    <<DaysFromCivil(y, m, FirstSunday(y, m)) - 1, 16 * MsPerHour>>

\* The UTC offset, in hours, of the process-local zone at instant t: Sydney
\* is on standard time (+10) from April's change to October's and on
\* daylight time (+11) otherwise, for the instants of SydneyYears.
UtcOffsetHours(zone, t) ==
    IF zone = "Australia/Sydney"
    THEN IF \E y \in SydneyYears :
               TsLeq(SydneyChange(y, 4), t) /\ ~TsLeq(SydneyChange(y, 10), t)
         THEN 10 ELSE 11
    ELSE 0

\* datetime.fromtimestamp(ms / 1000): the naive local wall-clock time
FromTimestamp(zone, t) == TsAdd(t, UtcOffsetHours(zone, t) * MsPerHour)

\* (approval_datetime - created_datetime).total_seconds() / 3600, kept exact
\* as h hours plus r milliseconds, 0 <= r < MsPerHour
ReviewTime(zone, created_date, approval_date) ==
    LET c == FromTimestamp(zone, created_date)
        a == FromTimestamp(zone, approval_date)
        d == a[2] - c[2]
    IN  [h |-> (a[1] - c[1]) * 24 + (d \div MsPerHour), r |-> d % MsPerHour]

\* str(pr_id)
StrOf(pr_id) == ToString(pr_id)

\* activities_data.get(str(pr_id), [])
ActivitiesOf(activities_data, pr_id) ==
    IF StrOf(pr_id) \in DOMAIN activities_data
    THEN activities_data[StrOf(pr_id)]
    ELSE <<>>

\* Mutant of FirstApprovalFrom: the loop has no break, the last 'APPROVED'
\* activity wins.
RECURSIVE LastApprovalFrom(_, _)
LastApprovalFrom(activities, i) ==
    IF i > Len(activities) THEN NULL
    ELSE LET later == LastApprovalFrom(activities, i + 1)
         IN  IF later # NULL THEN later
             ELSE IF activities[i].action = "APPROVED"
             THEN activities[i].createdDate
             ELSE NULL

\* The loop at lines 253-256: the createdDate of the first 'APPROVED'
\* activity from position i on, None when there is none.
RECURSIVE FirstApprovalFrom(_, _)
FirstApprovalFrom(activities, i) ==
    IF i > Len(activities) THEN NULL
    ELSE IF activities[i].action = "APPROVED" THEN activities[i].createdDate
    ELSE FirstApprovalFrom(activities, i + 1)

FirstApproval(activities) == FirstApprovalFrom(activities, 1)

\* The accumulators before the loop (lines 227-233); classes and approvals
\* record, per detail record, the branch taken and the approval_date local,
\* total the exact sum, and terms the review times in the order they were
\* added to total_review_time.
ReviewAcc0 ==
    [total |-> [h |-> 0, r |-> 0], pr_count |-> 0,
     skipped_not_merged |-> 0, skipped_no_created |-> 0,
     skipped_no_approval |-> 0, skipped_outside_range |-> 0,
     classes |-> <<>>, approvals |-> <<>>, terms |-> <<>>]

\* Mutant of ReviewStep: a record approved outside the window is dropped
\* without being counted in skipped_outside_range.
ReviewStepSilentOutside(acc, pr, activities_data, zone, start_timestamp, end_timestamp) ==
    IF Upper(pr.state) # "MERGED"
    THEN [acc EXCEPT !.skipped_not_merged = @ + 1,
                     !.classes = Append(@, "not_merged"),
                     !.approvals = Append(@, NULL)]
    ELSE IF ~Truthy(pr.createdDate)
    THEN [acc EXCEPT !.skipped_no_created = @ + 1,
                     !.classes = Append(@, "no_created"),
                     !.approvals = Append(@, NULL)]
    ELSE LET approval_date == FirstApproval(ActivitiesOf(activities_data, pr.id))
         IN  IF ~Truthy(approval_date)
             THEN [acc EXCEPT !.skipped_no_approval = @ + 1,
                              !.classes = Append(@, "no_approval"),
                              !.approvals = Append(@, approval_date)]
             ELSE IF InRange(start_timestamp, approval_date, end_timestamp)
             THEN LET rt == ReviewTime(zone, pr.createdDate, approval_date)
                  IN  [acc EXCEPT !.total = [h |-> @.h + rt.h, r |-> @.r + rt.r],
                                  !.pr_count = @ + 1,
                                  !.classes = Append(@, "counted"),
                                  !.approvals = Append(@, approval_date),
                                  !.terms = Append(@, rt)]
             ELSE [acc EXCEPT !.classes = Append(@, "outside_range"),
                              !.approvals = Append(@, approval_date)]

\* One iteration of the loop body (lines 236-272).
ReviewStep(acc, pr, activities_data, zone, start_timestamp, end_timestamp) ==
    IF Upper(pr.state) # "MERGED"
    THEN [acc EXCEPT !.skipped_not_merged = @ + 1,
                     !.classes = Append(@, "not_merged"),
                     !.approvals = Append(@, NULL)]
    ELSE IF ~Truthy(pr.createdDate)
    THEN [acc EXCEPT !.skipped_no_created = @ + 1,
                     !.classes = Append(@, "no_created"),
                     !.approvals = Append(@, NULL)]
    ELSE LET approval_date == FirstApproval(ActivitiesOf(activities_data, pr.id))
         IN  IF ~Truthy(approval_date)
             THEN [acc EXCEPT !.skipped_no_approval = @ + 1,
                              !.classes = Append(@, "no_approval"),
                              !.approvals = Append(@, approval_date)]
             ELSE IF InRange(start_timestamp, approval_date, end_timestamp)
             THEN LET rt == ReviewTime(zone, pr.createdDate, approval_date)
                  IN  [acc EXCEPT !.total = [h |-> @.h + rt.h, r |-> @.r + rt.r],
                                  !.pr_count = @ + 1,
                                  !.classes = Append(@, "counted"),
                                  !.approvals = Append(@, approval_date),
                                  !.terms = Append(@, rt)]
             ELSE [acc EXCEPT !.skipped_outside_range = @ + 1,
                              !.classes = Append(@, "outside_range"),
                              !.approvals = Append(@, approval_date)]

\* for pr in detailed_prs (line 235)
RECURSIVE ReviewLoop(_, _, _, _, _, _, _)
ReviewLoop(acc, detailed_prs, i, activities_data, zone, start_timestamp, end_timestamp) ==
    IF i > Len(detailed_prs) THEN acc
    ELSE ReviewLoop(ReviewStep(acc, detailed_prs[i], activities_data, zone,
                               start_timestamp, end_timestamp),
                    detailed_prs, i + 1, activities_data, zone,
                    start_timestamp, end_timestamp)

(***************************************************************************)
(* Python floats.  total_review_time is a sum of IEEE 754 doubles, each    *)
(* operation rounded to 53 bits, ties to even.  A natural number is a      *)
(* sequence of limbs of LimbBits bits, most significant first; a double is *)
(* a sign s (1 or -1), a mantissa m of MantissaBits bits and an exponent   *)
(* e, standing for s * m * 2^e; zero has the empty mantissa.               *)
(***************************************************************************)
MantissaBits == 53

LimbBits == 15

LimbBase == 2 ^ LimbBits

\* Limbs appended to a dividend so that its quotient by a divisor below
\* LimbBase has more than MantissaBits bits.
GuardLimbs == 5

RECURSIVE NatLimbs(_)
NatLimbs(n) ==
    IF n = 0 THEN <<>> ELSE Append(NatLimbs(n \div LimbBase), n % LimbBase)

RECURSIVE LimbsNat(_)
LimbsNat(limbs) ==
    IF limbs = <<>> THEN 0
    ELSE LimbBase * LimbsNat(SubSeq(limbs, 1, Len(limbs) - 1)) + limbs[Len(limbs)]

Zeros(n) == [i \in 1..n |-> 0]

RECURSIVE Strip(_)
Strip(limbs) ==
    IF limbs # <<>> /\ Head(limbs) = 0 THEN Strip(Tail(limbs)) ELSE limbs

\* a + b, from the last limb to the first
RECURSIVE AddFrom(_, _, _, _, _)
AddFrom(a, b, i, carry, sum) ==
    IF i = 0 THEN IF carry > 0 THEN <<carry>> \o sum ELSE sum
    ELSE LET t == a[i] + b[i] + carry
         IN  AddFrom(a, b, i - 1, t \div LimbBase, <<t % LimbBase>> \o sum)

AddLimbs(a, b) ==
    LET n == IF Len(a) > Len(b) THEN Len(a) ELSE Len(b)
    IN  Strip(AddFrom(Zeros(n - Len(a)) \o a, Zeros(n - Len(b)) \o b, n, 0, <<>>))

\* a - b for a >= b, from the last limb to the first
RECURSIVE SubFrom(_, _, _, _, _)
SubFrom(a, b, i, borrow, diff) ==
    IF i = 0 THEN diff
    ELSE LET t == a[i] - b[i] - borrow
         IN  SubFrom(a, b, i - 1, IF t < 0 THEN 1 ELSE 0,
                     <<IF t < 0 THEN t + LimbBase ELSE t>> \o diff)

SubLimbs(a, b) ==
    Strip(SubFrom(a, Zeros(Len(a) - Len(b)) \o b, Len(a), 0, <<>>))

\* a < b on stripped numbers
RECURSIVE LessFrom(_, _, _)
LessFrom(a, b, i) ==
    IF i > Len(a) THEN FALSE
    ELSE IF a[i] # b[i] THEN a[i] < b[i]
    ELSE LessFrom(a, b, i + 1)

LessLimbs(a, b) ==
    IF Len(a) # Len(b) THEN Len(a) < Len(b) ELSE LessFrom(a, b, 1)

\* limbs * c, 0 <= c < LimbBase
RECURSIVE MulFrom(_, _, _, _, _)
MulFrom(limbs, c, i, carry, prod) ==
    IF i = 0 THEN IF carry > 0 THEN <<carry>> \o prod ELSE prod
    ELSE LET t == limbs[i] * c + carry
         IN  MulFrom(limbs, c, i - 1, t \div LimbBase, <<t % LimbBase>> \o prod)

MulSmall(limbs, c) == Strip(MulFrom(limbs, c, Len(limbs), 0, <<>>))

\* limbs divided by d, 0 < d < LimbBase: quotient and remainder
RECURSIVE DivFrom(_, _, _, _, _)
DivFrom(limbs, i, d, rem, quot) ==
    IF i > Len(limbs) THEN [q |-> Strip(quot), r |-> rem]
    ELSE LET t == rem * LimbBase + limbs[i]
         IN  DivFrom(limbs, i + 1, d, t % d, Append(quot, t \div d))

DivSmall(limbs, d) == DivFrom(limbs, 1, d, 0, <<>>)

RECURSIVE BitLenNat(_)
BitLenNat(n) == IF n = 0 THEN 0 ELSE 1 + BitLenNat(n \div 2)

\* The number of bits of a stripped number
BitLen(limbs) ==
    IF limbs = <<>> THEN 0
    ELSE LimbBits * (Len(limbs) - 1) + BitLenNat(Head(limbs))

\* limbs * 2^k
ShiftLeft(limbs, k) ==
    MulSmall(limbs, 2 ^ (k % LimbBits)) \o Zeros(k \div LimbBits)

\* limbs divided by 2^k: the quotient, and whether a remainder is left
RECURSIVE ShiftRight(_, _)
ShiftRight(limbs, k) ==
    IF limbs = <<>> THEN [q |-> <<>>, lost |-> FALSE]
    ELSE IF k >= LimbBits
    THEN LET rest == ShiftRight(SubSeq(limbs, 1, Len(limbs) - 1), k - LimbBits)
         IN  [q |-> rest.q, lost |-> rest.lost \/ limbs[Len(limbs)] # 0]
    ELSE LET dv == DivSmall(limbs, 2 ^ k)
         IN  [q |-> dv.q, lost |-> dv.r # 0]

IsOdd(limbs) == limbs # <<>> /\ limbs[Len(limbs)] % 2 = 1

\* The nearest number with drop fewer bits, ties to even: n / 2^drop
\* rounded, when sticky says whether n itself was cut short; drop >= 1.
RoundOff(n, drop, sticky) ==
    LET sh   == ShiftRight(n, drop - 1)
        down == DivSmall(sh.q, 2).q
    IN  IF IsOdd(sh.q) /\ (sh.lost \/ sticky \/ IsOdd(down))
        THEN AddLimbs(down, <<1>>)
        ELSE down

\* The double nearest to sign * (n / d) * 2^e0, ties to even; 0 < d < LimbBase.
RoundNearest(sign, n, d, e0) ==
    IF n = <<>> THEN [s |-> 1, m |-> <<>>, e |-> 0] ELSE
    LET dv   == DivSmall(n \o Zeros(GuardLimbs), d)
        drop == BitLen(dv.q) - MantissaBits
        m    == RoundOff(dv.q, drop, dv.r # 0)
        e    == e0 - GuardLimbs * LimbBits + drop
    IN  IF BitLen(m) > MantissaBits
        THEN [s |-> sign, m |-> DivSmall(m, 2).q, e |-> e + 1]
        ELSE [s |-> sign, m |-> m, e |-> e]

\* x / d for a double x and an int d > 0
FloatDiv(x, d) == RoundNearest(x.s, x.m, d, x.e)

\* x + y
FloatAdd(x, y) ==
    LET e == IF x.e < y.e THEN x.e ELSE y.e
        a == ShiftLeft(x.m, x.e - e)
        b == ShiftLeft(y.m, y.e - e)
    IN  IF x.s = y.s THEN RoundNearest(x.s, AddLimbs(a, b), 1, e)
        ELSE IF LessLimbs(a, b) THEN RoundNearest(y.s, SubLimbs(b, a), 1, e)
        ELSE RoundNearest(x.s, SubLimbs(a, b), 1, e)

\* round(x, 2) in hundredths: the exact value of x * 100 rounded to an
\* integer, ties to even (float.__round__ rounds the exact binary value).
RoundHundredths(x) ==
    LET scaled == MulSmall(x.m, 100)
    IN  x.s * (IF x.e >= 0 THEN LimbsNat(ShiftLeft(scaled, x.e))
               ELSE LimbsNat(RoundOff(scaled, 0 - x.e, FALSE)))

\* review_time of line 267 as a double: total_seconds() is the quotient of
\* the microseconds by 10^6, and the hours are that double by 3600; rt is
\* the exact time, h hours and r milliseconds (h < 0 when the approval is
\* before the creation on the local clock).
ReviewTimeFloat(rt) ==
    LET hours == IF rt.h >= 0 THEN rt.h
                 ELSE IF rt.r = 0 THEN 0 - rt.h ELSE 0 - rt.h - 1
        rest  == IF rt.h >= 0 \/ rt.r = 0 THEN rt.r ELSE MsPerHour - rt.r
        ms    == AddLimbs(MulSmall(MulSmall(NatLimbs(hours), 3600), 1000),
                          NatLimbs(rest))
    IN  FloatDiv(RoundNearest(IF rt.h >= 0 THEN 1 ELSE 0 - 1, ms, 1000, 0), 3600)

\* total_review_time after the terms from position i on were added to it
RECURSIVE FloatSumFrom(_, _, _)
FloatSumFrom(terms, i, total) ==
    IF i > Len(terms) THEN total
    ELSE FloatSumFrom(terms, i + 1, FloatAdd(total, ReviewTimeFloat(terms[i])))

\* round(total_review_time / pr_count, 2) in hundredths of an hour, for the
\* review times in the order the loop met them.
FloatMean(terms) ==
    RoundHundredths(FloatDiv(FloatSumFrom(terms, 2, ReviewTimeFloat(terms[1])),
                             Len(terms)))

\* parser.parse(s).astimezone(pytz.timezone('Australia/Sydney')): the same
\* instant as a Sydney wall-clock time with its UTC offset (lines 219-221).
AsTimezoneSydney(t) ==
    LET off == UtcOffsetHours("Australia/Sydney", t)
    IN  [wall |-> TsAdd(t, off * MsPerHour), offset |-> off]

\* Mutant of TimestampOf: the wall-clock time is taken for UTC.
TimestampOfWall(dt) == dt.wall

\* int(dt.timestamp() * 1000) of an aware datetime (lines 222-223)
TimestampOf(dt) == TsAdd(dt.wall, 0 - dt.offset * MsPerHour)

ReviewWindowStart(year, month) ==
    TimestampOf(AsTimezoneSydney(StartTimestamp(year, month)))

ReviewWindowEnd(year, month) ==
    TimestampOf(AsTimezoneSydney(EndTimestamp(year, month)))

\* Lines 227-287 on cached data: the accumulators and the returned value
\* (hundredths of an hour).
ReviewResult(pr_data, year, month, zone) ==
    LET acc == ReviewLoop(ReviewAcc0, pr_data.prs, 1, pr_data.activities, zone,
                          ReviewWindowStart(year, month), ReviewWindowEnd(year, month))
    IN  [acc |-> acc,
         value |-> IF acc.pr_count > 0 THEN FloatMean(acc.terms) ELSE 0]

(***************************************************************************)
(* Cache (cache.py)                                                        *)
(***************************************************************************)
EmptyMap == [k \in {} |-> 0]

Paths == 1..MaxFiles

\* A path with no file, and the file mkstemp leaves: it exists and is empty.
AbsentFile == [exists |-> FALSE, valid |-> FALSE, members |-> {}]

EmptyFile == [exists |-> TRUE, valid |-> FALSE, members |-> {}]

\* f"{project_path}_{year}_{month}"
create_cache_key(project_path, year, month) == <<project_path, year, month>>

\* json.dump(self.pr_cache, f): one member per key of the dictionary.  The
\* entries hold only JSON values (they came from response.json() and their
\* keys are strings), so each value is written as it is.
JsonDump(mem) ==
    [exists |-> TRUE, valid |-> TRUE,
     members |-> {[name |-> k, value |-> mem[k]] : k \in DOMAIN mem}]

\* json.load(f) of a valid text: the dictionary of its members
JsonLoad(file) ==
    [k \in {mb.name : mb \in file.members} |->
        (CHOOSE mb \in file.members : mb.name = k).value]

NoEntry == [prs |-> <<>>, activities |-> EmptyMap]

\* Mutant of CacheGet: a snapshot that cannot be read or decoded is taken
\* for an empty payload, which is stored under the key.
CacheGetStoresOnError(mem, cf, files, cache_key, read_ok) ==
    IF cache_key \in DOMAIN mem
    THEN [found |-> TRUE, value |-> mem[cache_key], pr_cache |-> mem, tier |-> "memory"]
    ELSE IF cf # NULL /\ files[cf[1]].exists /\ read_ok /\ files[cf[1]].valid
            /\ cache_key \in DOMAIN JsonLoad(files[cf[1]])
    THEN [found |-> TRUE, value |-> JsonLoad(files[cf[1]])[cache_key],
          pr_cache |-> (cache_key :> JsonLoad(files[cf[1]])[cache_key]) @@ mem,
          tier |-> "file"]
    ELSE IF cf # NULL /\ files[cf[1]].exists /\ ~(read_ok /\ files[cf[1]].valid)
    THEN [found |-> FALSE, value |-> NoEntry,
          pr_cache |-> (cache_key :> NoEntry) @@ mem, tier |-> "miss"]
    ELSE [found |-> FALSE, value |-> NoEntry, pr_cache |-> mem, tier |-> "miss"]

\* Mutant of CacheGet: the memory tier is not consulted.
CacheGetFileOnly(mem, cf, files, cache_key, read_ok) ==
    IF cf # NULL /\ files[cf[1]].exists /\ read_ok /\ files[cf[1]].valid
       /\ cache_key \in DOMAIN JsonLoad(files[cf[1]])
    THEN [found |-> TRUE, value |-> JsonLoad(files[cf[1]])[cache_key],
          pr_cache |-> (cache_key :> JsonLoad(files[cf[1]])[cache_key]) @@ mem,
          tier |-> "file"]
    ELSE [found |-> FALSE, value |-> NoEntry, pr_cache |-> mem, tier |-> "miss"]

\* Mutant of CacheGet: an entry without pull requests counts as no entry.
CacheGetSkipsEmpty(mem, cf, files, cache_key, read_ok) ==
    IF cache_key \in DOMAIN mem /\ mem[cache_key].prs # <<>>
    THEN [found |-> TRUE, value |-> mem[cache_key], pr_cache |-> mem, tier |-> "memory"]
    ELSE IF cf # NULL /\ files[cf[1]].exists /\ read_ok /\ files[cf[1]].valid
            /\ cache_key \in DOMAIN JsonLoad(files[cf[1]])
            /\ JsonLoad(files[cf[1]])[cache_key].prs # <<>>
    THEN [found |-> TRUE, value |-> JsonLoad(files[cf[1]])[cache_key],
          pr_cache |-> (cache_key :> JsonLoad(files[cf[1]])[cache_key]) @@ mem,
          tier |-> "file"]
    ELSE [found |-> FALSE, value |-> NoEntry, pr_cache |-> mem, tier |-> "miss"]

\* BitbucketCache.get (lines 40-71).  read_ok: open() raises no IOError.
\* Returns the value (found = FALSE is None), the memory tier afterwards and
\* the tier that answered.
CacheGet(mem, cf, files, cache_key, read_ok) ==
    IF cache_key \in DOMAIN mem
    THEN [found |-> TRUE, value |-> mem[cache_key], pr_cache |-> mem, tier |-> "memory"]
    ELSE IF cf # NULL /\ files[cf[1]].exists /\ read_ok /\ files[cf[1]].valid
            /\ cache_key \in DOMAIN JsonLoad(files[cf[1]])
    THEN [found |-> TRUE, value |-> JsonLoad(files[cf[1]])[cache_key],
          pr_cache |-> (cache_key :> JsonLoad(files[cf[1]])[cache_key]) @@ mem,
          tier |-> "file"]
    ELSE [found |-> FALSE, value |-> NoEntry, pr_cache |-> mem, tier |-> "miss"]

\* tempfile.mkstemp names a file that does not exist yet.
FreePaths(files) == {p \in Paths : ~files[p].exists}

NewPath(files) == CHOOSE p \in FreePaths(files) : \A q \in FreePaths(files) : p <= q

\* What the disk tier does during one put: mkstemp raises OSError (only
\* when there is no cache file yet), open(..., 'w') raises IOError, json.dump
\* fails after open truncated the file, or the snapshot is written.
DiskOutcomes == {"ok", "mkstemp_raises", "open_fails", "write_fails"}

\* BitbucketCache._update_cache_file (lines 91-103).  mkstemp (lines 95-96)
\* is called outside the try block: its OSError propagates.
UpdateCacheFile(mem, cf, files, disk) ==
    IF cf = NULL /\ disk = "mkstemp_raises"
    THEN [cache_file |-> cf, fs |-> files, raised |-> TRUE, written |-> FALSE]
    ELSE LET path   == IF cf = NULL THEN <<NewPath(files)>> ELSE cf
             files1 == IF cf = NULL THEN [files EXCEPT ![path[1]] = EmptyFile]
                       ELSE files
         IN  CASE disk = "open_fails" ->
                    [cache_file |-> path, fs |-> files1,
                     raised |-> FALSE, written |-> FALSE]
               [] disk = "write_fails" ->
                    [cache_file |-> path, fs |-> [files1 EXCEPT ![path[1]] = EmptyFile],
                     raised |-> FALSE, written |-> FALSE]
               [] OTHER ->
                    [cache_file |-> path, fs |-> [files1 EXCEPT ![path[1]] = JsonDump(mem)],
                     raised |-> FALSE, written |-> TRUE]

\* Mutant of CachePut: the snapshot is rewritten before the entry is stored.
CachePutWriteFirst(mem, cf, files, cache_key, data, disk) ==
    LET upd == UpdateCacheFile(mem, cf, files, disk)
    IN  [pr_cache |-> (cache_key :> data) @@ mem,
         cache_file |-> upd.cache_file, fs |-> upd.fs,
         raised |-> upd.raised, written |-> upd.written]

\* BitbucketCache.put (lines 73-89)
CachePut(mem, cf, files, cache_key, data, disk) ==
    LET mem1 == (cache_key :> data) @@ mem
        upd  == UpdateCacheFile(mem1, cf, files, disk)
    IN  [pr_cache |-> mem1, cache_file |-> upd.cache_file, fs |-> upd.fs,
         raised |-> upd.raised, written |-> upd.written]

\* Mutant of CacheCleanup: cache_file is reset only when os.remove succeeds.
CacheCleanupKeepsPath(cf, files, remove_ok) ==
    IF cf # NULL /\ files[cf[1]].exists
    THEN [pr_cache |-> EmptyMap, cache_file |-> IF remove_ok THEN NULL ELSE cf,
          fs |-> IF remove_ok THEN [files EXCEPT ![cf[1]] = AbsentFile] ELSE files]
    ELSE [pr_cache |-> EmptyMap, cache_file |-> cf, fs |-> files]

\* Mutant of CacheCleanup: only the memory tier is cleared.
CacheCleanupMemoryOnly(cf, files, remove_ok) ==
    [pr_cache |-> EmptyMap, cache_file |-> cf, fs |-> files]

\* BitbucketCache.cleanup (lines 105-114).  remove_ok: os.remove raises no
\* OSError.
CacheCleanup(cf, files, remove_ok) ==
    IF cf # NULL /\ files[cf[1]].exists
    THEN [pr_cache |-> EmptyMap, cache_file |-> NULL,
          fs |-> IF remove_ok THEN [files EXCEPT ![cf[1]] = AbsentFile] ELSE files]
    ELSE [pr_cache |-> EmptyMap, cache_file |-> cf, fs |-> files]

(***************************************************************************)
(* The server and the fetch pipeline (client.py, metrics.py 27-127)        *)
(***************************************************************************)
\* The summary the list endpoint returns for a server pull request.
SummaryOf(spr) ==
    [id |-> spr.id, state |-> spr.sumState, closedDate |-> spr.sumClosed,
     createdDate |-> spr.createdDate]

\* The detail endpoint's record.
DetailOf(spr) ==
    [id |-> spr.id, state |-> spr.state, createdDate |-> spr.createdDate,
     closedDate |-> spr.closedDate]

ServerPrById(srv, pr_id) == CHOOSE i \in 1..Len(srv) : srv[i].id = pr_id

\* Mutant of InitialPageFetch: the failure of the request goes unnoticed.
InitialPageFetchIgnoresFailure(srv, list_ok) ==
    [i \in 1..Len(srv) |-> SummaryOf(srv[i])]

\* BitbucketClient.fetch_paginated_data_concurrently (lines 283-297 and
\* 433-435) against a server whose list fits the first page of limit=1000:
\* a failed initial request returns [], a last page returns its values.
InitialPageFetch(srv, list_ok) ==
    IF list_ok THEN [i \in 1..Len(srv) |-> SummaryOf(srv[i])] ELSE <<>>

\* Mutant of PreFilterKeeps: the state is not looked at.
PreFilterKeepsAnyState(pr, start_timestamp, end_timestamp) ==
    /\ Truthy(pr.closedDate)
    /\ InRange(start_timestamp, pr.closedDate, end_timestamp)

\* Mutant of PreFilterKeeps: the closed timestamp is not compared with the
\* window.
PreFilterKeepsAnyDate(pr, start_timestamp, end_timestamp) ==
    /\ Truthy(pr.closedDate)
    /\ Upper(pr.state) = "MERGED"

\* Mutant of PreFilterKeeps: the last millisecond of the month is outside.
PreFilterKeepsBeforeEnd(pr, start_timestamp, end_timestamp) ==
    /\ Truthy(pr.closedDate)
    /\ InRange(start_timestamp, pr.closedDate, end_timestamp)
    /\ pr.closedDate # end_timestamp
    /\ Upper(pr.state) = "MERGED"

\* BitbucketMetrics._pre_filter_prs_by_date_range (lines 88-127)
PreFilterKeeps(pr, start_timestamp, end_timestamp) ==
    /\ Truthy(pr.closedDate)
    /\ InRange(start_timestamp, pr.closedDate, end_timestamp)
    /\ Upper(pr.state) = "MERGED"

\* The loop with its counter: filtered_prs and skipped_count after the
\* items from position i on (lines 105-123).
RECURSIVE PreFilterFrom(_, _, _, _, _, _)
PreFilterFrom(prs, i, filtered_prs, skipped_count, start_timestamp, end_timestamp) ==
    IF i > Len(prs)
    THEN [filtered_prs |-> filtered_prs, skipped_count |-> skipped_count]
    ELSE IF PreFilterKeeps(prs[i], start_timestamp, end_timestamp)
    THEN PreFilterFrom(prs, i + 1, Append(filtered_prs, prs[i]), skipped_count,
                       start_timestamp, end_timestamp)
    ELSE PreFilterFrom(prs, i + 1, filtered_prs, skipped_count + 1,
                       start_timestamp, end_timestamp)

PreFilter(prs, start_timestamp, end_timestamp) ==
    PreFilterFrom(prs, 1, <<>>, 0, start_timestamp, end_timestamp).filtered_prs

\* for pr in prs: pr_id = pr.get('id'); if not pr_id: continue (222-225)
Submitted(prs) == SelectSeq(prs, LAMBDA pr : pr.id # 0)

\* The orders in which n submitted fetches can complete.
CompletionOrders(n) ==
    {f \in [1..n -> 1..n] : \A i, j \in 1..n : f[i] = f[j] => i = j}

\* What the network does to one DetailFetcher batch: the detail requests
\* and the activity requests that fail, and the order of completion.
BatchOutcomes(prs) ==
    LET ids == {prs[i].id : i \in 1..Len(prs)}
    IN  [detail_fails : SUBSET ids, activity_fails : SUBSET ids,
         order : CompletionOrders(Len(Submitted(prs)))]

\* BitbucketClient.fetch_pr_data_concurrently (lines 199-264).  Details are
\* appended as their futures complete; a failed detail fetch returns None
\* and is dropped; a failed activity fetch returns [].
FetchPrDataConcurrently(srv, prs, net) ==
    LET submitted == Submitted(prs)
        completed == [i \in 1..Len(submitted) |-> submitted[net.order[i]]]
        arrived   == SelectSeq(completed, LAMBDA pr : pr.id \notin net.detail_fails)
        ids       == {submitted[i].id : i \in 1..Len(submitted)}
    IN  [prs |-> [i \in 1..Len(arrived) |->
                     DetailOf(srv[ServerPrById(srv, arrived[i].id)])],
         activities |->
             [k \in {StrOf(pr_id) : pr_id \in ids} |->
                 LET pr_id == CHOOSE x \in ids : StrOf(x) = k
                 IN  IF pr_id \in net.activity_fails THEN <<>>
                     ELSE srv[ServerPrById(srv, pr_id)].activities]]

\* The HTTP requests of the batch: two per submitted pull request.
BatchRequests(prs) == 2 * Len(Submitted(prs))

\* BitbucketMetrics._fetch_pr_data (lines 27-86).  env: what the network and
\* the disk do during the call.
FetchPrData(mem, cf, files, srv, project_path, year, month, env) ==
    LET cached_data == CacheGet(mem, cf, files,
                                create_cache_key(project_path, year, month),
                                env.read_ok)
    IN  IF cached_data.found
        THEN [pr_data |-> cached_data.value, pr_cache |-> cached_data.pr_cache,
              cache_file |-> cf, fs |-> files, requests |-> 0,
              raised |-> FALSE, hit |-> TRUE, written |-> FALSE,
              list_failed |-> FALSE]
        ELSE LET all_prs == InitialPageFetch(srv, env.list_ok)
                 filtered_prs == PreFilter(all_prs, StartTimestamp(year, month),
                                           EndTimestamp(year, month))
                 pr_data == FetchPrDataConcurrently(srv, filtered_prs, env.net)
                 put == CachePut(cached_data.pr_cache, cf, files,
                                 create_cache_key(project_path, year, month),
                                 pr_data, env.disk)
             IN  [pr_data |-> pr_data, pr_cache |-> put.pr_cache,
                  cache_file |-> put.cache_file, fs |-> put.fs,
                  requests |-> 1 + BatchRequests(filtered_prs),
                  raised |-> put.raised, hit |-> FALSE, written |-> put.written,
                  list_failed |-> ~env.list_ok]

\* The number of failed requests of a batch outcome.
NetFaults(list_ok, net) ==
    (IF list_ok THEN 0 ELSE 1) + Cardinality(net.detail_fails)
        + Cardinality(net.activity_fails)

\* The outcomes of the disk tier that can differ in a put: mkstemp is
\* called only while there is no cache file.
PutOutcomes(cf) ==
    {d \in DiskOutcomes : d = "mkstemp_raises" => cf = NULL}

\* open() of the snapshot can fail only when get reaches it.
ReadOutcomes(cf, files) ==
    IF cf # NULL /\ files[cf[1]].exists THEN BOOLEAN ELSE {TRUE}

\* What can happen around one call of _fetch_pr_data: nothing matters on a
\* memory hit; otherwise the list request, the batch and the disk each
\* succeed or fail.
QuietEnv ==
    [list_ok |-> TRUE, read_ok |-> TRUE,
     net |-> [detail_fails |-> {}, activity_fails |-> {}, order |-> <<>>],
     disk |-> "ok"]

FetchEnvs(mem, cf, files, srv, project_path, year, month) ==
    IF \A read_ok \in BOOLEAN :
          CacheGet(mem, cf, files, create_cache_key(project_path, year, month),
                   read_ok).found
    THEN {QuietEnv}
    ELSE UNION {
           {[list_ok |-> ok, read_ok |-> r, net |-> n, disk |-> d] :
               n \in BatchOutcomes(PreFilter(InitialPageFetch(srv, ok),
                                             StartTimestamp(year, month),
                                             EndTimestamp(year, month))),
               d \in PutOutcomes(cf), r \in ReadOutcomes(cf, files)} :
           ok \in BOOLEAN}

(***************************************************************************)
(* The HTTP client (client.py): construction and the rate limiter.  Time   *)
(* is counted in ticks; an optional string is NULL (None) or <<string>>.   *)
(***************************************************************************)
TicksPerSecond == 2

\* time.time() when the process starts: far more than any interval after
\* the epoch, where last_request_time = 0 lies.
ClockStart == 10

\* Python truth of an optional string: None and '' are false.
TruthyStr(v) == v # NULL /\ v[1] # ""

\* 1.0 / requests_per_second if requests_per_second > 0 else 0 (line 35);
\* the modelled rates divide TicksPerSecond, so the division is exact.
RequestInterval(requests_per_second) ==
    IF requests_per_second > 0 THEN TicksPerSecond \div requests_per_second ELSE 0

\* No object yet.
NoClient ==
    [constructed |-> FALSE, raised |-> FALSE, token |-> NULL, username |-> NULL,
     password |-> NULL, max_workers |-> 0, request_interval |-> 0,
     last_request_time |-> 0, authorization |-> NULL, auth |-> NULL]

\* Mutant of BitbucketClient: a username without a password is accepted.
BitbucketClientUserOnly(token, username, password, max_workers, requests_per_second) ==
    LET fields == [NoClient EXCEPT !.token = token, !.username = username,
                                   !.password = password,
                                   !.max_workers = max_workers,
                                   !.request_interval =
                                       RequestInterval(requests_per_second)]
    IN  IF TruthyStr(token)
        THEN [fields EXCEPT !.constructed = TRUE,
                            !.authorization = <<"Bearer", token[1]>>]
        ELSE IF TruthyStr(username)
        THEN [fields EXCEPT !.constructed = TRUE,
                            !.auth = <<username[1], password>>]
        ELSE [fields EXCEPT !.raised = TRUE]

\* BitbucketClient.__init__ (lines 17-50).  authorization is the value of
\* headers['Authorization'], NULL when the header is not set.  When the
\* constructor raises ValueError there is no object; the arguments stay in
\* the record for reference.
BitbucketClient(token, username, password, max_workers, requests_per_second) ==
    LET fields == [NoClient EXCEPT !.token = token, !.username = username,
                                   !.password = password,
                                   !.max_workers = max_workers,
                                   !.request_interval =
                                       RequestInterval(requests_per_second)]
    IN  IF TruthyStr(token)
        THEN [fields EXCEPT !.constructed = TRUE,
                            !.authorization = <<"Bearer", token[1]>>]
        ELSE IF TruthyStr(username) /\ TruthyStr(password)
        THEN [fields EXCEPT !.constructed = TRUE,
                            !.auth = <<username[1], password[1]>>]
        ELSE [fields EXCEPT !.raised = TRUE]

\* The facade's defaults: max_workers=10, requests_per_second=5 would give
\* an interval of a fifth of a second; one request per tick stands for it.
DefaultClient == BitbucketClient(<<"token">>, NULL, NULL, MaxWorkers, TicksPerSecond)

IdleThread == [pc |-> "idle", now |-> 0, seen |-> 0, wake |-> 0, left |-> 0]

NoThreads == [w \in 1..MaxWorkers |-> IdleThread]

NoPager == [ran |-> FALSE]

limiter_vars == <<clock, threads, sent>>

\* No cold call in progress.
NoCall == [pc |-> "none"]

NoPool == [open |-> FALSE, nthreads |-> 0, futures |-> <<>>]

pipeline_vars == <<call, pool, wire>>

\* rate_limited_request line 76 over the requests of one call of the
\* pipeline: a request that returned a response, whatever its status, stamps
\* last_request_time; one on which requests.get raised does not.  The
\* pipeline's runs do not measure time: the clock stands still.
StampRequests(requests, failed) ==
    IF requests = 0 THEN {client}
    ELSE IF failed = 0 THEN {[client EXCEPT !.last_request_time = clock]}
    ELSE {client, [client EXCEPT !.last_request_time = clock]}

(***************************************************************************)
(* The state machine: one data source (facade, cache and engine) in one    *)
(* process, the temp directory, and the server.                            *)
(***************************************************************************)
LocalZones == {"UTC", "Australia/Sydney"}

NoKey == <<"", 0, 0>>

NoValue == 0 - 1

\* The record of the last operation.  value: the returned metric (the review
\* time in hundredths of an hour), NoValue when nothing was returned; data:
\* the entry a cache get returned or the pr_data a query computed from.
Last(op, key, fetch, data, value, acc) ==
    [op |-> op, key |-> key, hit |-> fetch.hit,
     requests |-> fetch.requests, raised |-> fetch.raised,
     written |-> fetch.written, list_failed |-> fetch.list_failed,
     data |-> data, value |-> value, acc |-> acc]

NoFetch == [hit |-> FALSE, requests |-> 0, raised |-> FALSE, written |-> FALSE,
            list_failed |-> FALSE]

\* The faults injected so far stay within the model's budgets, and mkstemp
\* names a new file only while the modelled directory has room.
Inject(disk_faults, net_faults) ==
    /\ faults.disk + disk_faults + faults.net + net_faults <= MaxFaults
    /\ faults' = [disk |-> faults.disk + disk_faults,
                  net |-> faults.net + net_faults]

DiskRoom(disk) ==
    (cache_file = NULL /\ disk # "mkstemp_raises") => FreePaths(fs) # {}

Fault(failed) == IF failed THEN 1 ELSE 0

\* BitbucketDataSource.get_merged_prs -> BitbucketMetrics.get_merged_prs
GetMergedPrs(project_path, year, month) ==
    \E env \in FetchEnvs(pr_cache, cache_file, fs, server, project_path, year, month) :
        LET key == create_cache_key(project_path, year, month)
            f   == FetchPrData(pr_cache, cache_file, fs, server,
                               project_path, year, month, env)
        IN  /\ Inject(Fault(env.disk # "ok") + Fault(~env.read_ok),
                      NetFaults(env.list_ok, env.net))
            /\ CacheGet(pr_cache, cache_file, fs, key, env.read_ok).found
                   \/ DiskRoom(env.disk)
            /\ pr_cache' = f.pr_cache
            /\ cache_file' = f.cache_file
            /\ fs' = f.fs
            /\ stored' = IF f.hit THEN stored ELSE (key :> f.pr_data) @@ stored
            /\ last' = Last("get_merged_prs", key, f, f.pr_data,
                            IF f.raised THEN NoValue
                            ELSE MergedCount(f.pr_data.prs, year, month),
                            ReviewAcc0)
            /\ client' \in StampRequests(f.requests, NetFaults(env.list_ok, env.net))
            /\ UNCHANGED <<tz, server, limiter_vars, pager, pipeline_vars>>

\* BitbucketDataSource.get_pr_review_time -> BitbucketMetrics.get_pr_review_time
GetPrReviewTime(project_path, year, month) ==
    \E env \in FetchEnvs(pr_cache, cache_file, fs, server, project_path, year, month) :
        LET key == create_cache_key(project_path, year, month)
            f   == FetchPrData(pr_cache, cache_file, fs, server,
                               project_path, year, month, env)
            res == ReviewResult(f.pr_data, year, month, tz)
        IN  /\ Inject(Fault(env.disk # "ok") + Fault(~env.read_ok),
                      NetFaults(env.list_ok, env.net))
            /\ CacheGet(pr_cache, cache_file, fs, key, env.read_ok).found
                   \/ DiskRoom(env.disk)
            /\ pr_cache' = f.pr_cache
            /\ cache_file' = f.cache_file
            /\ fs' = f.fs
            /\ stored' = IF f.hit THEN stored ELSE (key :> f.pr_data) @@ stored
            /\ last' = Last("get_pr_review_time", key, f, f.pr_data,
                            IF f.raised THEN NoValue ELSE res.value,
                            IF f.raised THEN ReviewAcc0 ELSE res.acc)
            /\ client' \in StampRequests(f.requests, NetFaults(env.list_ok, env.net))
            /\ UNCHANGED <<tz, server, limiter_vars, pager, pipeline_vars>>

\* The outcomes of os.remove: it is called only for an existing cache file.
RemoveOutcomes(cf, files) ==
    IF cf # NULL /\ files[cf[1]].exists THEN BOOLEAN ELSE {TRUE}

\* BitbucketDataSource.cleanup_cache -> BitbucketCache.cleanup
CleanupCache ==
    \E remove_ok \in RemoveOutcomes(cache_file, fs) :
        LET c == CacheCleanup(cache_file, fs, remove_ok)
        IN  /\ Inject(Fault(~remove_ok), 0)
            /\ pr_cache' = c.pr_cache
            /\ cache_file' = c.cache_file
            /\ fs' = c.fs
            /\ stored' = EmptyMap
            /\ last' = Last("cleanup", NoKey, NoFetch, NoEntry, NoValue, ReviewAcc0)
            /\ UNCHANGED <<tz, server, client, limiter_vars, pager, pipeline_vars>>

\* A direct BitbucketCache.get(project_path, year, month)
Get(project_path, year, month) ==
    \E read_ok \in ReadOutcomes(cache_file, fs) :
        LET key == create_cache_key(project_path, year, month)
            g   == CacheGet(pr_cache, cache_file, fs, key, read_ok)
        IN  /\ Inject(Fault(~read_ok), 0)
            /\ pr_cache' = g.pr_cache
            /\ last' = Last("get", key, [NoFetch EXCEPT !.hit = g.found],
                            g.value, NoValue, ReviewAcc0)
            /\ UNCHANGED <<tz, server, cache_file, fs, stored,
                           client, limiter_vars, pager, pipeline_vars>>

\* A direct BitbucketCache.put(project_path, year, month, data)
Put(project_path, year, month, data) ==
    \E disk \in PutOutcomes(cache_file) :
        LET key == create_cache_key(project_path, year, month)
            c   == CachePut(pr_cache, cache_file, fs, key, data, disk)
        IN  /\ DiskRoom(disk)
            /\ Inject(Fault(disk # "ok"), 0)
            /\ pr_cache' = c.pr_cache
            /\ cache_file' = c.cache_file
            /\ fs' = c.fs
            /\ stored' = (key :> data) @@ stored
            /\ last' = Last("put", key,
                            [NoFetch EXCEPT !.raised = c.raised,
                                            !.written = c.written],
                            data, NoValue, ReviewAcc0)
            /\ UNCHANGED <<tz, server, client, limiter_vars, pager, pipeline_vars>>

\* A new process: BitbucketDataSource.__init__ builds a new BitbucketCache
\* (cache.py 15-24); the files of the temp directory stay.
NewDataSource ==
    /\ pr_cache' = EmptyMap
    /\ cache_file' = NULL
    /\ stored' = EmptyMap
    /\ last' = Last("init", NoKey, NoFetch, NoEntry, NoValue, ReviewAcc0)
    /\ client' = DefaultClient
    /\ UNCHANGED <<tz, server, fs, faults, limiter_vars, pager, pipeline_vars>>

(***************************************************************************)
(* The server data and the periods of the state machine                    *)
(***************************************************************************)
At(y, m, d, h, mi, s, ms) == ParseIsoUtc(y, m, d, h, mi, s, ms)

Activity(action, t) == [action |-> action, createdDate |-> t]

\* Merged in April 2025, approved four hours after its creation; Sydney's
\* daylight time ends between the two.
PrApril1 ==
    [id |-> 1, sumState |-> "MERGED", state |-> "MERGED",
     createdDate |-> At(2025, 4, 5, 14, 0, 0, 0),
     sumClosed |-> At(2025, 4, 5, 19, 0, 0, 0),
     closedDate |-> At(2025, 4, 5, 19, 0, 0, 0),
     activities |-> <<Activity("MERGED", At(2025, 4, 5, 19, 0, 0, 0)),
                      Activity("APPROVED", At(2025, 4, 5, 18, 0, 0, 0))>>]

\* Merged in April 2025, approved six hours after its creation, the
\* approval withdrawn and given again later.
PrApril2 ==
    [id |-> 2, sumState |-> "MERGED", state |-> "MERGED",
     createdDate |-> At(2025, 4, 10, 12, 0, 0, 0),
     sumClosed |-> At(2025, 4, 30, 23, 59, 59, 999),
     closedDate |-> At(2025, 4, 30, 23, 59, 59, 999),
     activities |-> <<Activity("APPROVED", At(2025, 4, 10, 18, 0, 0, 0)),
                      Activity("UNAPPROVED", At(2025, 4, 10, 19, 0, 0, 0)),
                      Activity("APPROVED", At(2025, 4, 11, 9, 0, 0, 0))>>]

\* Merged in May 2025.
PrMay3 ==
    [id |-> 3, sumState |-> "MERGED", state |-> "MERGED",
     createdDate |-> At(2025, 4, 30, 22, 0, 0, 0),
     sumClosed |-> At(2025, 5, 1, 0, 0, 0, 0),
     closedDate |-> At(2025, 5, 1, 0, 0, 0, 0),
     activities |-> <<Activity("APPROVED", At(2025, 5, 1, 0, 30, 0, 0))>>]

\* Still open.
PrOpen4 ==
    [id |-> 4, sumState |-> "OPEN", state |-> "OPEN",
     createdDate |-> At(2025, 4, 20, 8, 0, 0, 0),
     sumClosed |-> NULL, closedDate |-> NULL,
     activities |-> <<>>]

ServerDataSets == {<<PrApril1, PrApril2, PrMay3, PrOpen4>>}

Repository == "PROJ/repo"

QueryPeriods == {<<2025, 4>>, <<2025, 5>>}

NoFile == [p \in Paths |-> AbsentFile]

\* The parts of the state a run of the cache and the metric engine starts
\* from and does not look at: a client built with the facade's defaults,
\* no thread inside the limiter, no paginator run.
Aside ==
    /\ client = DefaultClient
    /\ clock = ClockStart
    /\ threads = NoThreads
    /\ sent = <<>>
    /\ pager = NoPager
    /\ call = NoCall
    /\ pool = NoPool
    /\ wire = <<>>

LastInit ==
    [op |-> "init", key |-> NoKey, hit |-> FALSE,
     requests |-> 0, raised |-> FALSE, written |-> FALSE,
     list_failed |-> FALSE, data |-> NoEntry,
     value |-> NoValue, acc |-> ReviewAcc0]

Init ==
    /\ tz \in LocalZones
    /\ server \in ServerDataSets
    /\ pr_cache = EmptyMap
    /\ cache_file = NULL
    /\ fs = NoFile
    /\ stored = EmptyMap
    /\ last = LastInit
    /\ faults = [disk |-> 0, net |-> 0]
    /\ Aside

Next ==
    \/ \E p \in QueryPeriods : GetMergedPrs(Repository, p[1], p[2])
    \/ \E p \in QueryPeriods : GetPrReviewTime(Repository, p[1], p[2])
    \/ CleanupCache

Spec == Init /\ [][Next]_vars

(***************************************************************************)
(* The metric engine on cached data.  The cache is warm: it holds one      *)
(* entry, written to the snapshot, as after a cold query for the period.   *)
(***************************************************************************)
\* The calendar, counted day by day from 1970-01-01.
CalLeap(y) == (y % 4 = 0 /\ y % 100 # 0) \/ y % 400 = 0

CalDaysInMonth(y, m) ==
    <<31, IF CalLeap(y) THEN 29 ELSE 28, 31, 30, 31, 30, 31, 31, 30, 31, 30, 31>>[m]

\* 365 days for each year from 1970 on, and one more for each leap year.
CalDaysBeforeYear(y) ==
    365 * (y - 1970) + Cardinality({z \in 1970..(y - 1) : CalLeap(z)})

RECURSIVE CalDaysBeforeMonth(_, _)
CalDaysBeforeMonth(y, m) ==
    IF m <= 1 THEN 0 ELSE CalDaysBeforeMonth(y, m - 1) + CalDaysInMonth(y, m - 1)

CalFirstDay(y, m) == CalDaysBeforeYear(y) + CalDaysBeforeMonth(y, m)

\* The first and the last millisecond of the calendar month.
FirstInstant(y, m) == <<CalFirstDay(y, m), 0>>

LastInstant(y, m) == <<CalFirstDay(y, m) + CalDaysInMonth(y, m) - 1, MsPerDay - 1>>

PrevMs(t) == IF t[2] = 0 THEN <<t[1] - 1, MsPerDay - 1>> ELSE <<t[1], t[2] - 1>>

NextMs(t) == IF t[2] = MsPerDay - 1 THEN <<t[1] + 1, 0>> ELSE <<t[1], t[2] + 1>>

\* 23:59:59.000 of the day before the month starts
PriorDayLastSecond(y, m) == <<CalFirstDay(y, m) - 1, MsPerDay - 1000>>

\* Months of 29, 28 (2100 is no leap year), 30 and 31 days.
MergedPeriods == {<<2024, 2>>, <<2100, 2>>, <<2025, 4>>, <<2025, 12>>}

\* The (state, closedDate) pairs of the detail records of a period.
MergedShapes(y, m) ==
    {<<"MERGED", t>> : t \in {NULL, PrevMs(FirstInstant(y, m)), FirstInstant(y, m),
                              LastInstant(y, m), NextMs(LastInstant(y, m)),
                              PriorDayLastSecond(y, m)}}
    \cup {<<"merged", FirstInstant(y, m)>>, <<"OPEN", LastInstant(y, m)>>}

SeqsUpTo(S, n) == UNION {[1..k -> S] : k \in 0..n}

\* The entry a batch leaves for detail records of the given shapes.
MergedEntry(shapes, y, m) ==
    [prs |-> [i \in 1..Len(shapes) |->
                 [id |-> i, state |-> shapes[i][1],
                  createdDate |-> PrevMs(FirstInstant(y, m)),
                  closedDate |-> shapes[i][2]]],
     activities |-> [k \in {StrOf(i) : i \in 1..Len(shapes)} |-> <<>>]]

WarmInit(key, entry) ==
    /\ server = <<>>
    /\ pr_cache = (key :> entry)
    /\ stored = (key :> entry)
    /\ cache_file = <<1>>
    /\ fs = [NoFile EXCEPT ![1] = JsonDump(key :> entry)]
    /\ last = LastInit
    /\ faults = [disk |-> 0, net |-> 0]
    /\ Aside

InitMerged ==
    /\ tz = "UTC"
    /\ \E p \in MergedPeriods :
         \E shapes \in SeqsUpTo(MergedShapes(p[1], p[2]), MaxMergedPRs) :
            WarmInit(create_cache_key(Repository, p[1], p[2]),
                     MergedEntry(shapes, p[1], p[2]))

NextMerged == \E k \in DOMAIN pr_cache : GetMergedPrs(k[1], k[2], k[3])

SpecMerged == InitMerged /\ [][NextMerged]_vars

\* The (state, createdDate, activities) triples of the detail records of
\* the review-time runs; April 2025 holds the end of Sydney's daylight time
\* (2025-04-05T16:00Z).
ReviewShapes ==
    { \* approved after 4 h, across the end of daylight time
      <<"MERGED", At(2025, 4, 5, 14, 0, 0, 0),
        <<Activity("APPROVED", At(2025, 4, 5, 18, 0, 0, 0))>> >>,
      \* approved after 6 h
      <<"MERGED", At(2025, 4, 10, 12, 0, 0, 0),
        <<Activity("APPROVED", At(2025, 4, 10, 18, 0, 0, 0))>> >>,
      \* approved after 4 h
      <<"MERGED", At(2025, 4, 10, 14, 0, 0, 0),
        <<Activity("APPROVED", At(2025, 4, 10, 18, 0, 0, 0))>> >>,
      \* approved after 6 h, approval withdrawn, approved again the next day
      <<"MERGED", At(2025, 4, 10, 12, 0, 0, 0),
        <<Activity("APPROVED", At(2025, 4, 10, 18, 0, 0, 0)),
          Activity("UNAPPROVED", At(2025, 4, 10, 19, 0, 0, 0)),
          Activity("APPROVED", At(2025, 4, 11, 9, 0, 0, 0))>> >>,
      \* first approval in May, a later one in April
      <<"MERGED", At(2025, 4, 10, 12, 0, 0, 0),
        <<Activity("COMMENTED", At(2025, 4, 10, 13, 0, 0, 0)),
          Activity("APPROVED", At(2025, 5, 1, 0, 0, 0, 0)),
          Activity("APPROVED", At(2025, 4, 10, 18, 0, 0, 0))>> >>,
      \* first approval one millisecond before April, the next in April
      <<"MERGED", At(2025, 3, 31, 20, 0, 0, 0),
        <<Activity("APPROVED", At(2025, 3, 31, 23, 59, 59, 999)),
          Activity("APPROVED", At(2025, 4, 1, 0, 0, 0, 0))>> >>,
      \* approved at the first millisecond of April
      <<"MERGED", At(2025, 3, 31, 20, 0, 0, 0),
        <<Activity("APPROVED", At(2025, 4, 1, 0, 0, 0, 0))>> >>,
      \* approved at the last millisecond of April
      <<"MERGED", At(2025, 4, 10, 12, 0, 0, 0),
        <<Activity("APPROVED", At(2025, 4, 30, 23, 59, 59, 999))>> >>,
      \* no creation timestamp
      <<"MERGED", NULL,
        <<Activity("APPROVED", At(2025, 4, 10, 18, 0, 0, 0))>> >>,
      \* no activity at all, and no approval among the activities
      <<"MERGED", At(2025, 4, 10, 12, 0, 0, 0), <<>> >>,
      <<"MERGED", At(2025, 4, 10, 12, 0, 0, 0),
        <<Activity("COMMENTED", At(2025, 4, 10, 13, 0, 0, 0)),
          Activity("UNAPPROVED", At(2025, 4, 10, 19, 0, 0, 0))>> >>,
      \* the first approval carries no timestamp
      <<"MERGED", At(2025, 4, 10, 12, 0, 0, 0),
        <<Activity("APPROVED", NULL),
          Activity("APPROVED", At(2025, 4, 10, 18, 0, 0, 0))>> >>,
      \* not merged
      <<"OPEN", At(2025, 4, 10, 12, 0, 0, 0),
        <<Activity("APPROVED", At(2025, 4, 10, 18, 0, 0, 0))>> >>,
      \* lower-case state, approved after 4 h 20 s
      <<"merged", At(2025, 4, 10, 13, 59, 40, 0),
        <<Activity("APPROVED", At(2025, 4, 10, 18, 0, 0, 0))>> >>,
      \* approved before it was created
      <<"MERGED", At(2025, 4, 10, 12, 0, 0, 0),
        <<Activity("APPROVED", At(2025, 4, 10, 9, 0, 0, 0))>> >> }

ReviewPeriods == {<<2025, 4>>, <<2025, 5>>}

ReviewEntry(shapes, y, m) ==
    [prs |-> [i \in 1..Len(shapes) |->
                 [id |-> i, state |-> shapes[i][1],
                  createdDate |-> shapes[i][2],
                  closedDate |-> LastInstant(y, m)]],
     activities |-> [k \in {StrOf(i) : i \in 1..Len(shapes)} |->
                        shapes[CHOOSE i \in 1..Len(shapes) : StrOf(i) = k][3]]]

InitReview ==
    /\ tz \in LocalZones
    /\ \E p \in ReviewPeriods :
         \E shapes \in SeqsUpTo(ReviewShapes, MaxReviewPRs) :
            WarmInit(create_cache_key(Repository, p[1], p[2]),
                     ReviewEntry(shapes, p[1], p[2]))

NextReview == \E k \in DOMAIN pr_cache : GetPrReviewTime(k[1], k[2], k[3])

SpecReview == InitReview /\ [][NextReview]_vars

(***************************************************************************)
(* Claims about the metric engine                                          *)
(***************************************************************************)
\* "MERGED" compared without regard to case
SpecIsMerged(state) == state \in {"MERGED", "merged", "Merged"}

MergedQuery == last.op = "get_merged_prs" /\ ~last.raised

ReviewQuery == last.op = "get_pr_review_time" /\ ~last.raised

\* C1: get_merged_prs returns exactly the number of cached detail records
\* whose state is MERGED (case-insensitively) and whose closed timestamp is
\* non-null and lies in the requested month's window; no other record
\* contributes.
C1_MergedCount ==
    MergedQuery =>
        last.value =
            Cardinality({i \in 1..Len(last.data.prs) :
                LET pr == last.data.prs[i]
                IN  /\ SpecIsMerged(pr.state)
                    /\ pr.closedDate # NULL
                    /\ TsLeq(StartTimestamp(last.key[2], last.key[3]), pr.closedDate)
                    /\ TsLeq(pr.closedDate, EndTimestamp(last.key[2], last.key[3]))})

\* A run that counted one of three records: one is lower-case merged in the
\* window, one is not merged, one has no closed timestamp.
C1_Witness ==
    /\ MergedQuery
    /\ last.value = 1
    /\ Len(last.data.prs) = 3
    /\ \E i, j, k \in 1..3 :
         /\ last.data.prs[i].state = "merged"
         /\ last.data.prs[j].state = "OPEN"
         /\ last.data.prs[k].closedDate = NULL

\* C2: the window is the calendar month, inclusive at both ends: a merged
\* record is counted exactly when its closed timestamp lies between the
\* first millisecond of the month's first day and 23:59:59.999 of its last
\* calendar day (28, 29, 30 or 31).
C2_WindowInclusive ==
    MergedQuery =>
        last.value =
            Cardinality({i \in 1..Len(last.data.prs) :
                LET pr == last.data.prs[i]
                IN  /\ SpecIsMerged(pr.state)
                    /\ pr.closedDate # NULL
                    /\ TsLeq(FirstInstant(last.key[2], last.key[3]), pr.closedDate)
                    /\ TsLeq(pr.closedDate, LastInstant(last.key[2], last.key[3]))})

\* February 2024: three merged records, closed at the first millisecond, at
\* 23:59:59.999 of the 29th and at 23:59:59 of January 31st; the count is 2.
C2_Witness ==
    /\ MergedQuery
    /\ last.key = create_cache_key(Repository, 2024, 2)
    /\ Len(last.data.prs) = 3
    /\ \A i \in 1..3 : last.data.prs[i].state = "MERGED"
    /\ last.data.prs[1].closedDate = At(2024, 2, 1, 0, 0, 0, 0)
    /\ last.data.prs[2].closedDate = At(2024, 2, 29, 23, 59, 59, 999)
    /\ last.data.prs[3].closedDate = At(2024, 1, 31, 23, 59, 59, 0)
    /\ last.value = 2

\* The activity list cached for a detail record.
SpecActivities(data, pr) ==
    IF ToString(pr.id) \in DOMAIN data.activities
    THEN data.activities[ToString(pr.id)]
    ELSE <<>>

ApprovedAt(acts) == {j \in 1..Len(acts) : acts[j].action = "APPROVED"}

FirstApprovedAt(acts) == CHOOSE j \in ApprovedAt(acts) : \A k \in ApprovedAt(acts) : j <= k

\* The timestamp of the first approval in server order, NULL without one.
SpecFirstApproval(acts) ==
    IF ApprovedAt(acts) = {} THEN NULL ELSE acts[FirstApprovedAt(acts)].createdDate

\* The class of a detail record, the conditions tried in the stated order.
SpecClass(data, pr, y, m) ==
    LET approval == SpecFirstApproval(SpecActivities(data, pr))
    IN  IF ~SpecIsMerged(pr.state) THEN "not_merged"
        ELSE IF pr.createdDate = NULL THEN "no_created"
        ELSE IF approval = NULL THEN "no_approval"
        ELSE IF ~(TsLeq(FirstInstant(y, m), approval) /\ TsLeq(approval, LastInstant(y, m)))
        THEN "outside_range"
        ELSE "counted"

ClassCount(data, y, m, class) ==
    Cardinality({i \in 1..Len(data.prs) : SpecClass(data, data.prs[i], y, m) = class})

\* approval minus creation, as whole hours and remaining milliseconds
Elapsed(created, approval) ==
    [h |-> (approval[1] - created[1]) * 24 + ((approval[2] - created[2]) \div MsPerHour),
     r |-> (approval[2] - created[2]) % MsPerHour]

\* The sum of Time(pr, approval) over the counted records from position i on.
RECURSIVE CountedTotal(_, _, _, _, _)
CountedTotal(Time(_, _), data, y, m, i) ==
    IF i > Len(data.prs) THEN [h |-> 0, r |-> 0]
    ELSE LET pr   == data.prs[i]
             rest == CountedTotal(Time, data, y, m, i + 1)
         IN  IF SpecClass(data, pr, y, m) = "counted"
             THEN LET t == Time(pr.createdDate,
                                SpecFirstApproval(SpecActivities(data, pr)))
                  IN  [h |-> t.h + rest.h, r |-> t.r + rest.r]
             ELSE rest

Abs(x) == IF x < 0 THEN 0 - x ELSE x

\* C3: get_pr_review_time returns the mean, over the counted records, of
\* approval time minus creation time in hours, rounded to 2 decimal places
\* (value, in hundredths of an hour, is within half a hundredth of the
\* exact mean), and exactly 0 when no record is counted.
C3_MeanReviewTime ==
    ReviewQuery =>
        LET y == last.key[2]
            m == last.key[3]
            n == ClassCount(last.data, y, m, "counted")
            total == CountedTotal(Elapsed, last.data, y, m, 1)
        IN  IF n = 0 THEN last.value = 0
            ELSE Abs((last.value * n - total.h * 100) * 36000 - total.r) <= 18000 * n

\* The same property for a process whose local time is UTC.
MeanReviewTimeOnUtc == tz = "UTC" => C3_MeanReviewTime

\* C4: the approval time of a pull request is the timestamp of the first
\* 'APPROVED' activity of its list in server order; cutting the list after
\* that activity changes neither the classes nor the result.
CutAfterFirstApproval(data) ==
    [data EXCEPT !.activities =
        [k \in DOMAIN data.activities |->
            IF ApprovedAt(data.activities[k]) = {} THEN data.activities[k]
            ELSE SubSeq(data.activities[k], 1, FirstApprovedAt(data.activities[k]))]]

C4_FirstApprovalOnly ==
    ReviewQuery =>
        /\ \A i \in 1..Len(last.data.prs) :
              last.acc.classes[i] \notin {"not_merged", "no_created"} =>
                  last.acc.approvals[i] =
                      SpecFirstApproval(SpecActivities(last.data, last.data.prs[i]))
        /\ LET cut == ReviewResult(CutAfterFirstApproval(last.data),
                                   last.key[2], last.key[3], tz)
           IN  /\ cut.value = last.value
               /\ cut.acc.classes = last.acc.classes

\* A counted record with two approvals in the window, six hours and twenty-one
\* hours after its creation: the result is 6.00.
C4_Witness ==
    /\ ReviewQuery
    /\ Len(last.data.prs) = 1
    /\ Cardinality(ApprovedAt(SpecActivities(last.data, last.data.prs[1]))) = 2
    /\ last.acc.classes = <<"counted">>
    /\ last.acc.approvals = <<At(2025, 4, 10, 18, 0, 0, 0)>>
    /\ last.value = 600

\* C5: every detail record falls into exactly one of the five classes, tried
\* in the order not merged, no creation timestamp, no approval, approval
\* outside the window, counted; each counter is the size of its class, the
\* five add up to the number of detail records, and the sum holds the review
\* times of the counted records only.
C5_FiveClasses ==
    ReviewQuery =>
        LET y == last.key[2]
            m == last.key[3]
            acc == last.acc
            Local(created, approval) == ReviewTime(tz, created, approval)
        IN  /\ Len(acc.classes) = Len(last.data.prs)
            /\ \A i \in 1..Len(last.data.prs) :
                  acc.classes[i] = SpecClass(last.data, last.data.prs[i], y, m)
            /\ acc.skipped_not_merged = ClassCount(last.data, y, m, "not_merged")
            /\ acc.skipped_no_created = ClassCount(last.data, y, m, "no_created")
            /\ acc.skipped_no_approval = ClassCount(last.data, y, m, "no_approval")
            /\ acc.skipped_outside_range = ClassCount(last.data, y, m, "outside_range")
            /\ acc.pr_count = ClassCount(last.data, y, m, "counted")
            /\ acc.skipped_not_merged + acc.skipped_no_created + acc.skipped_no_approval
                   + acc.skipped_outside_range + acc.pr_count = Len(last.data.prs)
            /\ acc.total = CountedTotal(Local, last.data, y, m, 1)

\* Two records: one counted, one whose first approval is outside the window.
C5_Witness ==
    /\ ReviewQuery
    /\ Len(last.data.prs) = 2
    /\ last.acc.classes = <<"outside_range", "counted">>
    /\ last.acc.pr_count = 1
    /\ last.acc.skipped_outside_range = 1

(***************************************************************************)
(* The cache alone: puts and gets of one process after another, the files  *)
(* of the temp directory outliving the process that wrote them.            *)
(***************************************************************************)
\* The entries put: the payload of a batch of one pull request, and of none.
CacheEntries ==
    {[prs |-> <<DetailOf(PrApril1)>>,
      activities |-> (StrOf(PrApril1.id) :> PrApril1.activities)],
     NoEntry}

InitCache ==
    /\ tz = "UTC"
    /\ server = <<>>
    /\ pr_cache = EmptyMap
    /\ cache_file = NULL
    /\ fs = NoFile
    /\ stored = EmptyMap
    /\ last = LastInit
    /\ faults = [disk |-> 0, net |-> 0]
    /\ Aside

NextCache ==
    \/ \E p \in QueryPeriods, data \in CacheEntries : Put(Repository, p[1], p[2], data)
    \/ \E p \in QueryPeriods : Get(Repository, p[1], p[2])
    \/ CleanupCache
    \/ NewDataSource

SpecCache == InitCache /\ [][NextCache]_vars

Queries == {"get_merged_prs", "get_pr_review_time"}

\* The value a query returns when it computes from pr_data.
MetricOf(op, pr_data, year, month) ==
    IF op = "get_merged_prs" THEN MergedCount(pr_data.prs, year, month)
    ELSE ReviewResult(pr_data, year, month, tz).value

\* C6: once a query has populated the cache for a triple, every later
\* get_merged_prs or get_pr_review_time for the triple, until cleanup, issues
\* no HTTP request and returns the value computed from the payload the cold
\* query fetched.
C6_WarmCache ==
    [][(last'.op \in Queries /\ last'.key \in DOMAIN stored) =>
          /\ last'.hit
          /\ last'.requests = 0
          /\ ~last'.raised
          /\ last'.value = MetricOf(last'.op, stored[last'.key],
                                    last'.key[2], last'.key[3])]_vars

\* A warm get_merged_prs for April 2025 answers 2 without a request.
C6_Witness ==
    /\ last.op = "get_merged_prs"
    /\ last.hit
    /\ last.requests = 0
    /\ last.key = create_cache_key(Repository, 2025, 4)
    /\ last.value = 2

\* A snapshot written by some process holds the key.
SnapshotsWith(key) ==
    {p \in Paths : fs[p].exists /\ fs[p].valid /\ key \in DOMAIN JsonLoad(fs[p])}

\* C7: after put(key, entry) has written the snapshot file, the get(key) of
\* a newly constructed cache reads the snapshot and returns its entry.
C7_RoundTripAcrossProcesses ==
    [][(last.op = "init" /\ last'.op = "get" /\ SnapshotsWith(last'.key) # {}) =>
          /\ last'.hit
          /\ \E p \in SnapshotsWith(last'.key) :
                last'.data = JsonLoad(fs[p])[last'.key]]_vars

\* C8: put stores the entry in the memory tier under its key and then
\* rewrites the snapshot in full: after a put whose write succeeded the file
\* holds exactly the memory tier, which is every key put since the last
\* cleanup with the entry put last.
C8_PutRewritesSnapshot ==
    last.op = "put" =>
        /\ last.key \in DOMAIN pr_cache
        /\ pr_cache[last.key] = last.data
        /\ pr_cache = stored
        /\ last.written =>
              /\ cache_file # NULL
              /\ fs[cache_file[1]].exists
              /\ fs[cache_file[1]].valid
              /\ JsonLoad(fs[cache_file[1]]) = pr_cache

\* After two puts under different keys the snapshot holds both entries.
C8_Witness ==
    /\ last.op = "put"
    /\ last.written
    /\ Cardinality(DOMAIN pr_cache) = 2
    /\ cache_file # NULL
    /\ JsonLoad(fs[cache_file[1]]) = pr_cache

AllKeys == {create_cache_key(Repository, p[1], p[2]) : p \in QueryPeriods}

\* What the claim says of every cleanup but the fate of the file: the memory
\* tier is empty and no snapshot is referred to, every get misses, nothing
\* is raised, and a cleanup of a cache that is already clean changes nothing;
\* the query after a cleanup fetches again.
CleanupClears ==
    /\ last'.op = "cleanup" =>
          /\ pr_cache' = EmptyMap
          /\ cache_file' = NULL
          /\ ~last'.raised
          /\ \A key \in AllKeys, read_ok \in BOOLEAN :
                ~CacheGet(pr_cache', cache_file', fs', key, read_ok).found
          /\ (last.op = "cleanup" \/ (pr_cache = EmptyMap /\ cache_file = NULL)) =>
                UNCHANGED <<pr_cache, cache_file, fs>>
    /\ (last.op = "cleanup" /\ last'.op \in Queries) =>
          /\ ~last'.hit
          /\ last'.requests >= 1

\* C9 (as stated): after cleanup() the snapshot file no longer exists and
\* the memory tier is empty, so every get misses and the next query fetches
\* again; a second cleanup, or one on a cache that never wrote, changes
\* nothing and raises nothing.
C9_SnapshotFileGone ==
    [][/\ CleanupClears
       /\ (last'.op = "cleanup" /\ cache_file # NULL) =>
              ~fs'[cache_file[1]].exists]_vars

\* C9 (amended): the same, except that the snapshot file is deleted unless
\* os.remove fails; then it is left in the temp directory, unreferenced.
C9_CleanupClears ==
    [][/\ CleanupClears
       /\ (last'.op = "cleanup" /\ cache_file # NULL) =>
              \/ ~fs'[cache_file[1]].exists
              \/ /\ faults'.disk = faults.disk + 1
                 /\ fs' = fs]_vars

\* A cleanup whose os.remove failed: the cache is clean, the file is there.
C9_Witness ==
    /\ last.op = "cleanup"
    /\ pr_cache = EmptyMap
    /\ cache_file = NULL
    /\ \E p \in Paths : fs[p].exists /\ fs[p].valid

\* C10: a failure of the disk tier during put, creating the snapshot file or
\* writing it, is not fatal: no exception reaches the query, and the entry
\* is in the memory tier afterwards.
C10_DiskFailureNonFatal ==
    (last.op \in Queries /\ ~last.hit) =>
        /\ ~last.raised
        /\ last.key \in DOMAIN pr_cache
        /\ pr_cache[last.key] = last.data

\* C11: a get that misses the memory tier and then fails to read the
\* snapshot (open raises) or to decode it (the text is no JSON document)
\* returns None, raises nothing and leaves the memory tier as it was.
C11_ReadFailureIsMiss ==
    [][(/\ last'.op = "get"
        /\ last'.key \notin DOMAIN pr_cache
        /\ cache_file # NULL
        /\ fs[cache_file[1]].exists
        /\ \/ faults'.disk = faults.disk + 1
           \/ ~fs[cache_file[1]].valid) =>
          /\ ~last'.hit
          /\ ~last'.raised
          /\ pr_cache' = pr_cache]_vars

\* A get for a key the memory tier lacks, on a snapshot whose last write
\* failed halfway.
C11_Witness ==
    /\ last.op = "get"
    /\ ~last.hit
    /\ pr_cache # EmptyMap
    /\ last.key \notin DOMAIN pr_cache
    /\ cache_file # NULL
    /\ fs[cache_file[1]].exists
    /\ ~fs[cache_file[1]].valid

(***************************************************************************)
(* The rate limiter, one statement of rate_limited_request at a time, with *)
(* the worker threads of a pool interleaved.                               *)
(***************************************************************************)
RequestRates == {0, 1, TicksPerSecond}

\* What the steps of the limiter leave alone.
limiter_frame ==
    <<tz, server, pr_cache, cache_file, fs, last, stored, pager, pipeline_vars>>

\* now = time.time() (line 64)
ReadClock(w) ==
    /\ threads[w].pc = "idle"
    /\ threads[w].left > 0
    /\ threads' = [threads EXCEPT ![w].pc = "check", ![w].now = clock]
    /\ UNCHANGED <<limiter_frame, faults, client, clock, sent>>

\* time_since_last_request = now - self.last_request_time and the test of
\* line 66; time.sleep returns no earlier than sleep_time after its call.
CheckSpacing(w) ==
    /\ threads[w].pc = "check"
    /\ LET time_since_last_request == threads[w].now - client.last_request_time
       IN  threads' =
             [threads EXCEPT
                ![w].seen = client.last_request_time,
                ![w].pc = IF time_since_last_request < client.request_interval
                          THEN "sleep" ELSE "send",
                ![w].wake = IF time_since_last_request < client.request_interval
                            THEN clock + (client.request_interval
                                          - time_since_last_request)
                            ELSE clock]
    /\ UNCHANGED <<limiter_frame, faults, client, clock, sent>>

\* time.sleep(sleep_time) returns (line 68)
WakeUp(w) ==
    /\ threads[w].pc = "sleep"
    /\ clock >= threads[w].wake
    /\ threads' = [threads EXCEPT ![w].pc = "send"]
    /\ UNCHANGED <<limiter_frame, faults, client, clock, sent>>

\* requests.get sends the request (lines 71-74)
SendRequest(w) ==
    /\ threads[w].pc = "send"
    /\ sent' = Append(sent, [t |-> clock, w |-> w, seen |-> threads[w].seen])
    /\ threads' = [threads EXCEPT ![w].pc = "wait"]
    /\ UNCHANGED <<limiter_frame, faults, client, clock>>

\* requests.get returns a response; self.last_request_time = time.time()
\* (line 76)
Respond(w) ==
    /\ threads[w].pc = "wait"
    /\ client' = [client EXCEPT !.last_request_time = clock]
    /\ threads' = [threads EXCEPT ![w].pc = "idle", ![w].left = @ - 1]
    /\ UNCHANGED <<limiter_frame, faults, clock, sent>>

\* requests.get raises (connection refused, timeout): line 76 is not
\* reached, and the caller (fetch_pr_details, fetch_page) catches the error.
RequestRaises(w) ==
    /\ threads[w].pc = "wait"
    /\ Inject(0, 1)
    /\ threads' = [threads EXCEPT ![w].pc = "idle", ![w].left = @ - 1]
    /\ UNCHANGED <<limiter_frame, client, clock, sent>>

Tick ==
    /\ clock < ClockStart + MaxTicks
    /\ clock' = clock + 1
    /\ UNCHANGED <<limiter_frame, faults, client, threads, sent>>

\* A client with a pool of max_workers threads, each about to make
\* MaxRequests requests back to back.
InitLimiter ==
    /\ tz = "UTC"
    /\ server = <<>>
    /\ pr_cache = EmptyMap
    /\ cache_file = NULL
    /\ fs = NoFile
    /\ stored = EmptyMap
    /\ last = LastInit
    /\ faults = [disk |-> 0, net |-> 0]
    /\ clock = ClockStart
    /\ sent = <<>>
    /\ pager = NoPager
    /\ call = NoCall
    /\ pool = NoPool
    /\ wire = <<>>
    /\ \E max_workers \in 1..MaxWorkers, requests_per_second \in RequestRates :
          /\ client = BitbucketClient(<<"token">>, NULL, NULL,
                                      max_workers, requests_per_second)
          /\ threads = [w \in 1..MaxWorkers |->
                           IF w <= max_workers
                           THEN [IdleThread EXCEPT !.left = MaxRequests]
                           ELSE IdleThread]

NextLimiter ==
    \/ \E w \in 1..MaxWorkers : ReadClock(w)
    \/ \E w \in 1..MaxWorkers : CheckSpacing(w)
    \/ \E w \in 1..MaxWorkers : WakeUp(w)
    \/ \E w \in 1..MaxWorkers : SendRequest(w)
    \/ \E w \in 1..MaxWorkers : Respond(w)
    \/ \E w \in 1..MaxWorkers : RequestRaises(w)
    \/ Tick

SpecLimiter == InitLimiter /\ [][NextLimiter]_vars

\* Consecutive requests are at least one interval apart.
Spaced ==
    \A i \in 1..(Len(sent) - 1) : sent[i + 1].t - sent[i].t >= client.request_interval

\* C12: with a positive rate and any number of worker threads, no request is
\* issued less than one interval after the request granted before it, and
\* no two workers pass the spacing check against the same last-grant value.
C12_SpacingAmongWorkers ==
    client.request_interval > 0 =>
        /\ Spaced
        /\ \A i, j \in 1..Len(sent) :
              sent[i].w # sent[j].w => sent[i].seen # sent[j].seen

\* C13: N requests made back to back by a single caller take at least
\* (N-1) intervals from the first to the last, each starting no earlier than
\* one interval after the one before it.
C13_BackToBack ==
    (client.max_workers = 1 /\ Len(sent) > 0) =>
        /\ sent[Len(sent)].t - sent[1].t >= (Len(sent) - 1) * client.request_interval
        /\ Spaced

\* The spacing of a single caller all of whose requests are answered.
BackToBackWhenAnswered == faults.net = 0 => C13_BackToBack

(***************************************************************************)
(* Construction of the client, and with it of the facade, from every       *)
(* combination of credentials.                                             *)
(***************************************************************************)
OptionalStrings == {NULL, <<"">>, <<"secret">>}

\* BitbucketDataSource.__init__ line 30: BitbucketClient(base_url, token,
\* username, password, max_workers, requests_per_second)
Construct(token, username, password, max_workers, requests_per_second) ==
    /\ client' = BitbucketClient(token, username, password,
                                 max_workers, requests_per_second)
    /\ UNCHANGED <<limiter_frame, faults, limiter_vars>>

InitAuth ==
    /\ tz = "UTC"
    /\ server = <<>>
    /\ pr_cache = EmptyMap
    /\ cache_file = NULL
    /\ fs = NoFile
    /\ stored = EmptyMap
    /\ last = LastInit
    /\ faults = [disk |-> 0, net |-> 0]
    /\ client = NoClient
    /\ clock = ClockStart
    /\ threads = NoThreads
    /\ sent = <<>>
    /\ pager = NoPager
    /\ call = NoCall
    /\ pool = NoPool
    /\ wire = <<>>

NextAuth ==
    \E token, username, password \in OptionalStrings,
       max_workers \in 1..MaxWorkers, requests_per_second \in RequestRates :
        Construct(token, username, password, max_workers, requests_per_second)

SpecAuth == InitAuth /\ [][NextAuth]_vars

\* A credential is given: it is neither None nor empty.
Given(v) == v \notin {NULL, <<"">>}

\* C18: construction without a token and without both a username and a
\* password raises in the constructor, before any request; with a token, or
\* with a username and a password, it succeeds with exactly one scheme: the
\* bearer header and no basic-auth pair, or the pair and no header.
C18_ConstructorAuth ==
    (client.constructed \/ client.raised) =>
        /\ client.raised <=>
              (~Given(client.token)
               /\ ~(Given(client.username) /\ Given(client.password)))
        /\ client.raised =>
              /\ ~client.constructed
              /\ sent = <<>>
              /\ client.last_request_time = 0
        /\ client.constructed <=> ~client.raised
        /\ client.constructed =>
              IF Given(client.token)
              THEN /\ client.authorization = <<"Bearer", client.token[1]>>
                   /\ client.auth = NULL
              ELSE /\ client.authorization = NULL
                   /\ client.auth = <<client.username[1], client.password[1]>>

\* A username without a password, and an empty token: the constructor raises.
C18_Witness ==
    /\ client.raised
    /\ client.token = <<"">>
    /\ client.username = <<"secret">>
    /\ client.password = NULL

(***************************************************************************)
(* The two paginators (client.py 79-148 and 266-435) against a list        *)
(* endpoint.  The list has npos positions, numbered from 0; position i     *)
(* holds the item with id i + 1 unless it is hidden from the caller.  A    *)
(* page covers the positions from start up to the server's page length.    *)
(* A field of a reply is <<>> when its key is absent and <<v>> otherwise.   *)
(***************************************************************************)
Min(a, b) == IF a < b THEN a ELSE b

\* dict.get(key, default)
GetOr(field, default) == IF field = <<>> THEN default ELSE field[1]

TotalModes == {"accurate", "understated", "zero", "overstated", "missing"}

\* What the first page leaves out or misreports; a stuck first page names
\* its own offset as the next one.
Quirks ==
    {"none", "no_size", "no_isLastPage", "no_nextPageStart", "not_last", "stuck"}

VisibleCount(sv) == sv.npos - Cardinality(sv.hidden)

ReportedTotal(sv) ==
    CASE sv.total = "accurate"    -> <<VisibleCount(sv)>>
      [] sv.total = "understated" -> <<IF VisibleCount(sv) > 0
                                       THEN VisibleCount(sv) - 1 ELSE 0>>
      [] sv.total = "zero"        -> <<0>>
      [] sv.total = "overstated"  -> <<VisibleCount(sv) + 1>>
      [] OTHER                    -> <<>>

\* The reply to GET ...&start=start&limit=limit: failed, or the page.
ListReply(sv, start, limit) ==
    LET len     == Min(limit, sv.len)
        stop    == Min(start + len, sv.npos)
        covered == [i \in 1..(IF stop > start THEN stop - start ELSE 0) |->
                       start + i - 1]
        shown   == SelectSeq(covered, LAMBDA pos : pos \notin sv.hidden)
        is_last == start + len >= sv.npos
        first   == start = 0
    IN  [failed |-> start \in sv.down,
         values |-> [i \in 1..Len(shown) |-> [id |-> shown[i] + 1]],
         isLastPage |-> IF first /\ sv.quirk = "no_isLastPage" THEN <<>>
                        ELSE IF first /\ sv.quirk \in {"not_last", "stuck"}
                        THEN <<FALSE>>
                        ELSE <<is_last>>,
         nextPageStart |-> IF first /\ sv.quirk = "no_nextPageStart" THEN <<>>
                           ELSE IF first /\ sv.quirk = "not_last" THEN <<start + len>>
                           ELSE IF first /\ sv.quirk = "stuck" THEN <<start>>
                           ELSE IF is_last THEN <<>> ELSE <<start + len>>,
         size |-> IF first /\ sv.quirk = "no_size" THEN <<>> ELSE <<Len(shown)>>,
         total |-> ReportedTotal(sv)]

\* More requests than any run that ends makes on a list of MaxItems
\* positions.
MaxLoop == 2 * MaxItems + 4

\* Mutant of SequentialFrom: the next offset is always the current one plus
\* the number of items, whatever nextPageStart says.
RECURSIVE SequentialFromCounting(_, _, _, _, _, _)
SequentialFromCounting(sv, page_size, start, all_items, starts, fuel) ==
    LET data == ListReply(sv, start, page_size)
        asked == Append(starts, start)
        Result(items, done) ==
            [items |-> items, requests |-> Len(asked), starts |-> asked,
             done |-> done]
    IN  IF fuel = 0
        THEN [items |-> all_items, requests |-> Len(starts), starts |-> starts,
              done |-> FALSE]
        ELSE IF data.failed THEN Result(all_items, TRUE)
        ELSE IF data.values = <<>> THEN Result(all_items, TRUE)
        ELSE IF GetOr(data.isLastPage, TRUE)
        THEN Result(all_items \o data.values, TRUE)
        ELSE SequentialFromCounting(sv, page_size, start + Len(data.values),
                                    all_items \o data.values, asked, fuel - 1)

\* BitbucketClient.fetch_paginated_data (lines 79-148): the loop from the
\* page at start on.  Returns the items, the offsets requested in the order
\* of the requests, their number, and whether the loop ended (it has not
\* after MaxLoop requests: the server sends it round in a circle).
RECURSIVE SequentialFrom(_, _, _, _, _, _)
SequentialFrom(sv, page_size, start, all_items, starts, fuel) ==
    LET data == ListReply(sv, start, page_size)
        asked == Append(starts, start)
        Result(items, done) ==
            [items |-> items, requests |-> Len(asked), starts |-> asked,
             done |-> done]
    IN  IF fuel = 0
        THEN [items |-> all_items, requests |-> Len(starts), starts |-> starts,
              done |-> FALSE]
        ELSE IF data.failed THEN Result(all_items, TRUE)
        ELSE IF data.values = <<>> THEN Result(all_items, TRUE)
        ELSE IF GetOr(data.isLastPage, TRUE)
        THEN Result(all_items \o data.values, TRUE)
        ELSE SequentialFrom(sv, page_size,
                            IF data.nextPageStart # <<>> THEN data.nextPageStart[1]
                            ELSE start + Len(data.values),
                            all_items \o data.values, asked, fuel - 1)

fetch_paginated_data(sv, page_size) ==
    SequentialFrom(sv, page_size, 0, <<>>, <<>>, MaxLoop)

\* The prefetch loop (lines 330-356): it asks for up to left pages, keeps
\* nothing of their items and learns the starts of the pages after them.
RECURSIVE PrefetchStarts(_, _, _, _, _, _)
PrefetchStarts(sv, page_size, current_start, next_starts, left, requests) ==
    LET data == ListReply(sv, current_start, page_size)
    IN  IF left <= 0 THEN [starts |-> next_starts, requests |-> requests]
        ELSE IF data.failed \/ GetOr(data.isLastPage, TRUE)
        THEN [starts |-> next_starts, requests |-> requests + 1]
        ELSE LET next == IF data.nextPageStart # <<>> THEN data.nextPageStart[1]
                         ELSE current_start + page_size
             IN  PrefetchStarts(sv, page_size, next, Append(next_starts, next),
                                left - 1, requests + 1)

\* fetch_page (lines 364-383)
fetch_page(sv, page_size, start_index) ==
    LET data == ListReply(sv, start_index, page_size)
    IN  IF data.failed THEN <<>> ELSE data.values

RECURSIVE Flatten(_)
Flatten(pages) ==
    IF pages = <<>> THEN <<>> ELSE Head(pages) \o Flatten(Tail(pages))

Reverse(seq) == [i \in 1..Len(seq) |-> seq[Len(seq) + 1 - i]]

IdsOf(items) == {items[i].id : i \in 1..Len(items)}

\* A merge that does not look at the ids already held.
AppendAll(all_items, seq_items) == all_items \o seq_items

\* Lines 411-426: the items of the sequential pass whose id is not held yet.
RECURSIVE AppendNew(_, _)
AppendNew(all_items, seq_items) ==
    IF seq_items = <<>> THEN all_items
    ELSE AppendNew(IF Head(seq_items).id \in IdsOf(all_items) THEN all_items
                   ELSE Append(all_items, Head(seq_items)),
                   Tail(seq_items))

\* min(5, total // page_size + (1 if total % page_size > 0 else 0) - 1)
PrefetchPages == 5

MaxPrefetch(total_count, page_size) ==
    Min(PrefetchPages,
        (total_count \div page_size)
        + (IF total_count % page_size > 0 THEN 1 ELSE 0) - 1)

\* BitbucketClient.fetch_paginated_data_concurrently (lines 266-435).  The
\* pages of the concurrent pass are appended as their fetches complete: in
\* the order submitted, or in the opposite order when reversed.
fetch_paginated_data_concurrently(sv, page_size, reversed) ==
    LET initial_data == ListReply(sv, 0, page_size)
        first        == initial_data.values
        total_count  == GetOr(initial_data.total, 0)
        next_page_start == GetOr(initial_data.nextPageStart, 0)
        prefetch     == PrefetchStarts(sv, page_size, next_page_start,
                                       <<next_page_start>>,
                                       MaxPrefetch(total_count, page_size), 1)
        page_starts  == prefetch.starts
        pages        == [i \in 1..Len(page_starts) |->
                            fetch_page(sv, page_size, page_starts[i])]
        collected    == first \o Flatten(IF reversed THEN Reverse(pages) ELSE pages)
        requested    == prefetch.requests + Len(page_starts)
        seq          == fetch_paginated_data(sv, page_size)
        alone(items) == [items |-> items, requests |-> 1, fell_back |-> FALSE,
                         collected |-> items, seq_items |-> <<>>]
    IN  IF initial_data.failed THEN alone(<<>>)
        ELSE IF GetOr(initial_data.isLastPage, TRUE) THEN alone(first)
        ELSE IF GetOr(initial_data.size, 0) = 0 THEN alone(first)
        ELSE IF Len(collected) < total_count
        THEN [items |-> AppendNew(collected, seq.items),
              requests |-> requested + seq.requests, fell_back |-> TRUE,
              collected |-> collected, seq_items |-> seq.items]
        ELSE [items |-> collected, requests |-> requested, fell_back |-> FALSE,
              collected |-> collected, seq_items |-> <<>>]

\* The list endpoints of the model: up to MaxItems positions, at most one
\* of the first positions hidden, at most one of the first starts failing.
EarlyPositions == 0..MaxPageLen

ListServers ==
    {sv \in [npos : 0..MaxItems,
             hidden : {{}} \cup {{pos} : pos \in EarlyPositions},
             len : 1..MaxPageLen,
             total : TotalModes,
             quirk : Quirks,
             down : {{}} \cup {{start} : start \in EarlyPositions}] :
        /\ \A pos \in sv.hidden : pos < sv.npos
        /\ sv.quirk = "not_last" => sv.len >= sv.npos}

NoItems == [items |-> <<>>, requests |-> 0, fell_back |-> FALSE,
            collected |-> <<>>, seq_items |-> <<>>]

NoRun == [items |-> <<>>, requests |-> 0, starts |-> <<>>, done |-> FALSE]

paginator_frame == <<tz, server, pr_cache, cache_file, fs, last, stored, faults,
                     limiter_vars, pipeline_vars>>

\* One call of fetch_paginated_data on the endpoint.
FetchPaginatedData ==
    /\ pager.ran
    /\ ~pager.seq_ran
    /\ pager' = [pager EXCEPT
                    !.seq_ran = TRUE,
                    !.seq = fetch_paginated_data(pager.sv, pager.page_size)]
    /\ client' \in StampRequests(1, IF 0 \in pager.sv.down THEN 1 ELSE 0)
    /\ UNCHANGED paginator_frame

\* One call of fetch_paginated_data_concurrently on the same endpoint.
FetchPaginatedDataConcurrently ==
    /\ pager.ran
    /\ ~pager.conc_ran
    /\ \E reversed \in BOOLEAN :
          pager' = [pager EXCEPT
                       !.conc_ran = TRUE,
                       !.conc = fetch_paginated_data_concurrently(
                                    pager.sv, pager.page_size, reversed)]
    /\ client' \in StampRequests(1, IF 0 \in pager.sv.down THEN 1 ELSE 0)
    /\ UNCHANGED paginator_frame

InitPaginator ==
    /\ tz = "UTC"
    /\ server = <<>>
    /\ pr_cache = EmptyMap
    /\ cache_file = NULL
    /\ fs = NoFile
    /\ stored = EmptyMap
    /\ last = LastInit
    /\ faults = [disk |-> 0, net |-> 0]
    /\ client = DefaultClient
    /\ clock = ClockStart
    /\ threads = NoThreads
    /\ sent = <<>>
    /\ call = NoCall
    /\ pool = NoPool
    /\ wire = <<>>
    /\ \E sv \in ListServers, page_size \in 1..MaxPageLen :
          pager = [ran |-> TRUE, sv |-> sv, page_size |-> page_size,
                   seq_ran |-> FALSE, seq |-> NoRun,
                   conc_ran |-> FALSE, conc |-> NoItems]

NextPaginator ==
    \/ FetchPaginatedData
    \/ FetchPaginatedDataConcurrently

SpecPaginator == InitPaginator /\ [][NextPaginator]_vars

BothRan == pager.ran /\ pager.seq_ran /\ pager.conc_ran

NoDuplicates(items) ==
    \A i, j \in 1..Len(items) : items[i].id = items[j].id => i = j

\* The fallback of the concurrent paginator, stated on its result: the
\* items collected before it come first, and every item of the sequential
\* pass with an id not among them follows exactly once.
FallbackMerges(run) ==
    LET added == SubSeq(run.items, Len(run.collected) + 1, Len(run.items))
    IN  /\ SubSeq(run.items, 1, Len(run.collected)) = run.collected
        /\ NoDuplicates(added)
        /\ IdsOf(added) = IdsOf(run.seq_items) \ IdsOf(run.collected)

\* C14: against the same endpoint, whatever its page increments, its
\* reported total and its number of pages, the ids the concurrent paginator
\* returns include every id the sequential paginator returns; and when the
\* concurrent pass ends with fewer items than the total, the sequential
\* pass runs and each of its items with an unseen id is appended once.
C14_ConcurrentCoversSequential ==
    BothRan =>
       /\ IdsOf(pager.seq.items) \subseteq IdsOf(pager.conc.items)
       /\ pager.conc.fell_back => FallbackMerges(pager.conc)

\* The second half of C14 alone: what the fallback does when it runs.
FallbackAppendsUnseenOnce ==
    (pager.ran /\ pager.conc_ran /\ pager.conc.fell_back)
        => FallbackMerges(pager.conc)

\* The endpoint of Bitbucket Server, which reports no total, with three
\* pages: the concurrent paginator returns two of them.
ThreePagesNoTotal ==
    /\ BothRan
    /\ pager.sv = [npos |-> 3, hidden |-> {}, len |-> 1, total |-> "missing",
                   quirk |-> "none", down |-> {}]
    /\ IdsOf(pager.seq.items) = {1, 2, 3}
    /\ IdsOf(pager.conc.items) = {1, 2}

WellBehaved(sv) ==
    /\ sv.hidden = {}
    /\ sv.quirk = "none"
    /\ sv.total = "accurate"
    /\ sv.down = {}

\* C15: on a well-behaved endpoint (a static list in disjoint pages, each
\* nextPageStart the offset plus the page length, isLastPage true on the
\* final page only, the total the true count, no request failing) both
\* paginators return the same set of ids and neither returns an id twice,
\* however many pages the list has.
C15_WellBehavedSameIds ==
    (BothRan /\ WellBehaved(pager.sv)) =>
       /\ IdsOf(pager.conc.items) = IdsOf(pager.seq.items)
       /\ IdsOf(pager.seq.items) = 1..pager.sv.npos
       /\ NoDuplicates(pager.conc.items)
       /\ NoDuplicates(pager.seq.items)

\* A list longer than the pages the concurrent pass learns of (the first,
\* the next, and PrefetchPages more), so that the fallback completes it.
C15_Witness ==
    /\ BothRan
    /\ WellBehaved(pager.sv)
    /\ pager.sv.npos > (PrefetchPages + 2) * Min(pager.sv.len, pager.page_size)
    /\ pager.conc.fell_back
    /\ Len(pager.conc.collected) < Len(pager.conc.items)
    /\ IdsOf(pager.conc.items) = 1..pager.sv.npos

\* C16: when the first page reports a total of zero the concurrent
\* paginator returns no item and makes no request after the first one,
\* whatever the values, isLastPage, nextPageStart and size of that page.
C16_ZeroTotalStops ==
    (/\ pager.ran
     /\ pager.conc_ran
     /\ 0 \notin pager.sv.down
     /\ ReportedTotal(pager.sv) = <<0>>)
        => /\ pager.conc.items = <<>>
           /\ pager.conc.requests = 1

\* A first page with total 0, isLastPage false and one item: the paginator
\* asks for the next page and returns what it has.
ZeroTotalGoesOn ==
    /\ pager.ran
    /\ pager.conc_ran
    /\ pager.sv.total = "zero"
    /\ pager.sv.npos > pager.sv.len
    /\ 0 \notin pager.sv.down
    /\ pager.conc.requests > 1
    /\ pager.conc.items # <<>>

\* The reply the endpoint gave to the k-th request of a sequential run.
ReplyTo(k) == ListReply(pager.sv, pager.seq.starts[k], pager.page_size)

\* A page that ends the enumeration: the request failed, the page is empty,
\* or it says it is the last.
EndsPaging(data) ==
    data.failed \/ data.values = <<>> \/ data.isLastPage = <<TRUE>>

\* Every page of the endpoint carries isLastPage, as the response schema has it.
PagesCarryFlag(sv, page_size) ==
    \A start \in 0..sv.npos : ListReply(sv, start, page_size).isLastPage # <<>>

\* Every next offset the endpoint names lies after the offset of its page.
OffsetsIncrease(sv, page_size) ==
    \A start \in 0..sv.npos :
        LET data == ListReply(sv, start, page_size)
        IN  data.nextPageStart # <<>> => data.nextPageStart[1] > start

StuckNeverEnds ==
    /\ pager.ran
    /\ pager.seq_ran
    /\ pager.sv.quirk = "stuck"
    /\ ~pager.seq.done
    /\ \A k \in 1..Len(pager.seq.starts) : pager.seq.starts[k] = 0

PreFilterShapes(y, m) == MergedShapes(y, m) \cup {<<"MERGED", <<0, 0>> >>}

\* A server whose i-th pull request has id i and the i-th shape.
ListedServer(shapes, y, m) ==
    [i \in 1..Len(shapes) |->
        [id |-> i, sumState |-> shapes[i][1], sumClosed |-> shapes[i][2],
         state |-> shapes[i][1], closedDate |-> shapes[i][2],
         createdDate |-> PrevMs(FirstInstant(y, m)), activities |-> <<>>]]

\* _pre_filter_prs_by_date_range on the list of the server for the period
\* in last.key, as _fetch_pr_data calls it (lines 56-62).
PreFilterPrs ==
    /\ last.op = "init"
    /\ LET all_prs == InitialPageFetch(server, TRUE)
           run == PreFilterFrom(all_prs, 1, <<>>, 0,
                                StartTimestamp(last.key[2], last.key[3]),
                                EndTimestamp(last.key[2], last.key[3]))
       IN  last' = [last EXCEPT !.op = "pre_filter",
                                !.data = [prs |-> all_prs,
                                          kept |-> run.filtered_prs,
                                          skipped |-> run.skipped_count]]
    /\ UNCHANGED <<tz, server, pr_cache, cache_file, fs, stored, faults, client,
                   limiter_vars, pager, pipeline_vars>>

InitPreFilter ==
    /\ tz = "UTC"
    /\ pr_cache = EmptyMap
    /\ cache_file = NULL
    /\ fs = NoFile
    /\ stored = EmptyMap
    /\ faults = [disk |-> 0, net |-> 0]
    /\ Aside
    /\ \E p \in MergedPeriods :
         \E shapes \in SeqsUpTo(PreFilterShapes(p[1], p[2]), MaxMergedPRs) :
            /\ server = ListedServer(shapes, p[1], p[2])
            /\ last = [LastInit EXCEPT !.key = create_cache_key(Repository, p[1], p[2])]

NextPreFilter == PreFilterPrs

SpecPreFilter == InitPreFilter /\ [][NextPreFilter]_vars

\* The predicate of the pre-filter in the words of its contract.
InWindowAndMerged(pr, window_start, window_end) ==
    /\ SpecIsMerged(pr.state)
    /\ pr.closedDate # NULL
    /\ TsLeq(window_start, pr.closedDate)
    /\ TsLeq(pr.closedDate, window_end)

\* C20: the pre-filter returns a sub-list of its input in the input's
\* order (the i-th input item has id i); every kept item is MERGED in any
\* letter case with a non-null closedDate inside the window, ends included;
\* every input item of that kind is kept; and the kept and the skipped
\* counts add up to the input length.
C20_PreFilterSubList ==
    last.op = "pre_filter" =>
        LET prs  == last.data.prs
            kept == last.data.kept
            window_start == StartTimestamp(last.key[2], last.key[3])
            window_end   == EndTimestamp(last.key[2], last.key[3])
        IN  /\ \A j \in 1..Len(kept) :
                  /\ kept[j].id \in 1..Len(prs)
                  /\ kept[j] = prs[kept[j].id]
                  /\ InWindowAndMerged(kept[j], window_start, window_end)
            /\ \A j, k \in 1..Len(kept) : j < k => kept[j].id < kept[k].id
            /\ \A i \in 1..Len(prs) :
                  InWindowAndMerged(prs[i], window_start, window_end)
                      => \E j \in 1..Len(kept) : kept[j] = prs[i]
            /\ Len(kept) + last.data.skipped = Len(prs)

\* The first and the third of three summaries are kept, one of them in
\* lower case, and the one between them is skipped.
C20_Witness ==
    /\ last.op = "pre_filter"
    /\ Len(last.data.prs) = 3
    /\ Len(last.data.kept) = 2
    /\ last.data.kept[1].id = 1
    /\ last.data.kept[2].id = 3
    /\ last.data.kept[2].state = "merged"
    /\ last.data.skipped = 1

(***************************************************************************)
(* The queries on a server whose review times have a mean that lies        *)
(* exactly between two hundredths of an hour.                              *)
(***************************************************************************)
\* Milliseconds from creation to approval of three pull requests.  Each
\* sum is an odd multiple of 54000 ms: the exact mean of the three is an
\* odd multiple of half a hundredth of an hour.
HalfwayDelays ==
    {<<35486053, 249306002, 68853945>>, <<70152638, 224488389, 35352973>>}

\* t plus ms milliseconds, ms >= 0
Later(t, ms) ==
    LET x == t[2] + (ms % MsPerDay)
    IN  <<t[1] + (ms \div MsPerDay) + (x \div MsPerDay), x % MsPerDay>>

\* Pull requests 1..Len(delays), created at midnight of 2025-04-10 UTC,
\* approved after the given delays and merged on 2025-04-20.
DelayedServer(delays) ==
    [i \in 1..Len(delays) |->
        [id |-> i, sumState |-> "MERGED", state |-> "MERGED",
         createdDate |-> At(2025, 4, 10, 0, 0, 0, 0),
         sumClosed |-> At(2025, 4, 20, 0, 0, 0, 0),
         closedDate |-> At(2025, 4, 20, 0, 0, 0, 0),
         activities |->
             <<Activity("APPROVED",
                        Later(At(2025, 4, 10, 0, 0, 0, 0), delays[i]))>>]]

InitOrder ==
    /\ tz = "UTC"
    /\ server \in {DelayedServer(delays) : delays \in HalfwayDelays}
    /\ pr_cache = EmptyMap
    /\ cache_file = NULL
    /\ fs = NoFile
    /\ stored = EmptyMap
    /\ last = LastInit
    /\ faults = [disk |-> 0, net |-> 0]
    /\ Aside

NextOrder ==
    \/ GetMergedPrs(Repository, 2025, 4)
    \/ GetPrReviewTime(Repository, 2025, 4)
    \/ CleanupCache

SpecOrder == InitOrder /\ [][NextOrder]_vars

\* pr_data with its detail records in another order of arrival.
Rearranged(pr_data, order) ==
    [pr_data EXCEPT !.prs = [i \in 1..Len(pr_data.prs) |-> pr_data.prs[order[i]]]]

\* C19: for a fixed server and fixed failing requests, the value a query
\* returns is the same for every order in which the detail and activity
\* fetches complete (whatever the pool size): computed on the same fetched
\* records in any other order of arrival it is the value returned; and the
\* approval time of a record comes from the activities fetched for its id.
C19_OrderIndependent ==
    (last.op \in Queries /\ ~last.raised) =>
        /\ \A order \in CompletionOrders(Len(last.data.prs)) :
              MetricOf(last.op, Rearranged(last.data, order),
                       last.key[2], last.key[3]) = last.value
        /\ last.op = "get_pr_review_time" =>
              \A i \in 1..Len(last.data.prs) :
                  last.acc.approvals[i] =
                      FirstApproval(ActivitiesOf(last.data.activities,
                                                 last.data.prs[i].id))

\* The part of C19 about the merged count.
MergedCountOrderIndependent ==
    (last.op = "get_merged_prs" /\ ~last.raised) =>
        \A order \in CompletionOrders(Len(last.data.prs)) :
            MetricOf(last.op, Rearranged(last.data, order),
                     last.key[2], last.key[3]) = last.value

\* The part of C19 about the source of the approval time.
ApprovalFromSameId ==
    (last.op = "get_pr_review_time" /\ ~last.raised) =>
        \A i \in 1..Len(last.data.prs) :
            /\ last.acc.approvals[i] =
                   FirstApproval(ActivitiesOf(last.data.activities,
                                              last.data.prs[i].id))
            /\ ActivitiesOf(last.data.activities, last.data.prs[i].id) \in
                   {<<>>, server[ServerPrById(server, last.data.prs[i].id)].activities}

\* The three records of the first server arrive in the order 2, 3, 1: the
\* review time is 32.75, and 32.74 had they arrived in the order 1, 2, 3.
OrderChangesValue ==
    /\ last.op = "get_pr_review_time"
    /\ Len(last.data.prs) = 3
    /\ last.data.prs[1].id = 2
    /\ last.data.prs[2].id = 3
    /\ last.data.prs[3].id = 1
    /\ last.value = 3275
    /\ MetricOf(last.op, Rearranged(last.data, <<3, 1, 2>>),
                last.key[2], last.key[3]) = 3274

(***************************************************************************)
(* A cold call of _fetch_pr_data, statement by statement.  The calling     *)
(* thread lists the pull requests (client.py 266-435), filters them        *)
(* (metrics.py 76), has their details and activities fetched (client.py    *)
(* 199-264) and stores the entry (metrics.py 84); the worker threads of    *)
(* the two executors run the fetches handed to them.  A future is a record *)
(* of pool.futures, in the order of the submit calls; the result of a      *)
(* detail fetch is <<>> for None and <<detail>> otherwise.                  *)
(***************************************************************************)
MaxCandidates == 2

\* An entry of the history of the calling thread: a request it sent or got
\* answered, a fetch it handed to the executor, or the entry it stored.  The
\* requests of the worker threads are the futures that run or are done.
Event(ev, kind, arg) == [ev |-> ev, kind |-> kind, arg |-> arg]

\* The summaries of a page of the list: position i holds the pull request i + 1.
Summaries(values) == [i \in 1..Len(values) |-> SummaryOf(server[values[i].id])]

\* Mutant of InitialPage: a first page that is the last one is not noticed.
InitialPageGoesOn(data, page_size) ==
    IF data.failed
    THEN [returned |-> TRUE, all_items |-> <<>>, total_count |-> 0,
          next_starts |-> <<>>, left |-> 0]
    ELSE [returned |-> FALSE, all_items |-> data.values,
          total_count |-> GetOr(data.total, 0),
          next_starts |-> <<GetOr(data.nextPageStart, 0)>>,
          left |-> MaxPrefetch(GetOr(data.total, 0), page_size)]

\* Lines 286-328 and 433-435 once the initial response is there: whether the
\* paginator returns at once, and otherwise its locals before the prefetch
\* loop (left: the iterations range(max_prefetch) still has).
InitialPage(data, page_size) ==
    IF data.failed
    THEN [returned |-> TRUE, all_items |-> <<>>, total_count |-> 0,
          next_starts |-> <<>>, left |-> 0]
    ELSE IF GetOr(data.isLastPage, TRUE) \/ GetOr(data.size, 0) = 0
    THEN [returned |-> TRUE, all_items |-> data.values, total_count |-> 0,
          next_starts |-> <<>>, left |-> 0]
    ELSE [returned |-> FALSE, all_items |-> data.values,
          total_count |-> GetOr(data.total, 0),
          next_starts |-> <<GetOr(data.nextPageStart, 0)>>,
          left |-> MaxPrefetch(GetOr(data.total, 0), page_size)]

\* Mutant of ThreadsAfterSubmit: every submit starts a thread.
ThreadPerSubmit(nthreads, max_workers) == nthreads + 1

\* ThreadPoolExecutor(max_workers=self.max_workers) (lines 217 and 386): a
\* submit starts a worker thread while there are fewer than max_workers.
ThreadsAfterSubmit(nthreads, max_workers) ==
    IF nthreads < max_workers THEN nthreads + 1 ELSE nthreads

NewPool == [NoPool EXCEPT !.open = TRUE]

NewFuture(task) ==
    [kind |-> task.kind, arg |-> task.arg, state |-> "pending",
     outcome |-> "none", result |-> <<>>, collected |-> FALSE]

FuturesIn(state) ==
    {n \in 1..Len(pool.futures) : pool.futures[n].state = state}

\* The futures as_completed can yield next: done, of the kind, not yet taken.
Completed(kind) ==
    {n \in FuturesIn("done") :
        pool.futures[n].kind = kind /\ ~pool.futures[n].collected}

AllCollected(kind) ==
    \A n \in 1..Len(pool.futures) :
        pool.futures[n].kind = kind => pool.futures[n].collected

\* Mutant of DetailTasks: a detail and an activity fetch for every listed
\* pull request, filtered out or not.
DetailTasksOfAll(all_items, filtered_prs) ==
    LET submitted == Submitted(all_items)
    IN  [i \in 1..(2 * Len(submitted)) |->
            [kind |-> IF i % 2 = 1 THEN "detail" ELSE "activity",
             arg |-> submitted[(i + 1) \div 2].id]]

\* The submit calls of lines 222-231, in their order: for each pull request
\* with an id, its detail fetch and then its activity fetch.
DetailTasks(all_items, filtered_prs) ==
    LET submitted == Submitted(filtered_prs)
    IN  [i \in 1..(2 * Len(submitted)) |->
            [kind |-> IF i % 2 = 1 THEN "detail" ELSE "activity",
             arg |-> submitted[(i + 1) \div 2].id]]

\* What a fetch returns: fetch_page (lines 364-383), fetch_pr_details
\* (152-174) and fetch_pr_activities (176-197).  On "error" the except
\* clause of the fetch returns None or []; on "raises" the fetch itself
\* raises and its future has no result.
TaskResult(task, outcome) ==
    CASE task.kind = "page" ->
           Summaries(fetch_page(call.sv, call.page_size, task.arg))
      [] task.kind = "detail" ->
           IF outcome = "ok"
           THEN <<DetailOf(server[ServerPrById(server, task.arg)])>>
           ELSE <<>>
      [] OTHER ->
           IF outcome = "ok"
           THEN server[ServerPrById(server, task.arg)].activities
           ELSE <<>>

\* The outcomes of the request of a fetch.  "ok": answered; "error": a
\* RequestException (no connection, an HTTP error status), which the fetch
\* catches; "raises": an answer the fetch cannot read (response.json() or
\* .get fails with another exception), which only the calling thread
\* catches, at future.result().  A page request fails when the endpoint is
\* down at its offset.
TaskOutcomes(task) ==
    IF task.kind = "page"
    THEN {IF task.arg \in call.sv.down THEN "error" ELSE "ok"}
    ELSE {"ok", "error", "raises"}

\* The requests of the sequential pass, one after the other.
SequentialEvents(starts) ==
    Flatten([k \in 1..Len(starts) |->
                <<Event("send", "sequential", starts[k]),
                  Event("recv", "sequential", starts[k])>>])

pipeline_frame == <<tz, server, last, limiter_vars, pager>>

cache_vars == <<pr_cache, cache_file, fs, stored, faults>>

\* cached_data = self.cache.get(...) (metrics.py 40-45)
LookUp ==
    /\ call.pc = "get"
    /\ LET cached_data == CacheGet(pr_cache, cache_file, fs, call.key, TRUE)
       IN  /\ pr_cache' = cached_data.pr_cache
           /\ call' = [call EXCEPT !.pc = IF cached_data.found THEN "done"
                                          ELSE "initial",
                                   !.pr_data = cached_data.value]
    /\ UNCHANGED <<pipeline_frame, cache_file, fs, stored, faults, client,
                   pool, wire>>

\* initial_response = self.rate_limited_request(initial_url, ...) (line 287)
RequestInitialPage ==
    /\ call.pc = "initial"
    /\ wire' = Append(wire, Event("send", "initial", 0))
    /\ call' = [call EXCEPT !.pc = "initial_wait"]
    /\ UNCHANGED <<pipeline_frame, cache_vars, client, pool>>

\* Lines 288-328, or 433-435 when the request failed.
ReceiveInitialPage ==
    /\ call.pc = "initial_wait"
    /\ LET data == ListReply(call.sv, 0, call.page_size)
           page == InitialPage(data, call.page_size)
       IN  /\ call' = [call EXCEPT
                          !.pc = IF page.returned THEN "filter" ELSE "prefetch",
                          !.all_items = Summaries(page.all_items),
                          !.total_count = page.total_count,
                          !.next_starts = page.next_starts,
                          !.left = page.left]
           /\ client' \in StampRequests(1, IF data.failed THEN 1 ELSE 0)
    /\ wire' = Append(wire, Event("recv", "initial", 0))
    /\ UNCHANGED <<pipeline_frame, cache_vars, pool>>

\* One more iteration of the prefetch loop: the request of line 333 for
\* current_start, the start learnt last.
RequestPrefetch ==
    /\ call.pc = "prefetch"
    /\ call.left > 0
    /\ wire' = Append(wire, Event("send", "prefetch",
                                  call.next_starts[Len(call.next_starts)]))
    /\ call' = [call EXCEPT !.pc = "prefetch_wait"]
    /\ UNCHANGED <<pipeline_frame, cache_vars, client, pool>>

\* Lines 334-356: the loop ends on a last page or an error, and otherwise
\* learns the next start.
ReceivePrefetch ==
    /\ call.pc = "prefetch_wait"
    /\ LET current_start == call.next_starts[Len(call.next_starts)]
           data == ListReply(call.sv, current_start, call.page_size)
       IN  /\ call' =
                IF data.failed \/ GetOr(data.isLastPage, TRUE)
                THEN [call EXCEPT !.pc = "prefetch", !.left = 0]
                ELSE [call EXCEPT
                         !.pc = "prefetch",
                         !.left = @ - 1,
                         !.next_starts =
                             Append(@, IF data.nextPageStart # <<>>
                                       THEN data.nextPageStart[1]
                                       ELSE current_start + call.page_size)]
           /\ client' \in StampRequests(1, IF data.failed THEN 1 ELSE 0)
           /\ wire' = Append(wire, Event("recv", "prefetch", current_start))
    /\ UNCHANGED <<pipeline_frame, cache_vars, pool>>

\* The prefetch loop is over: the executor of line 386 is created, and the
\* pages of page_starts are the fetches to submit.
OpenPageExecutor ==
    /\ call.pc = "prefetch"
    /\ call.left <= 0
    /\ pool' = NewPool
    /\ call' = [call EXCEPT
                   !.pc = "fanout",
                   !.to_submit = [i \in 1..Len(call.next_starts) |->
                                     [kind |-> "page",
                                      arg |-> call.next_starts[i]]]]
    /\ UNCHANGED <<pipeline_frame, cache_vars, client, wire>>

\* executor.submit(...) (lines 388, 228 and 231)
Submit ==
    /\ call.pc \in {"fanout", "batch"}
    /\ call.to_submit # <<>>
    /\ pool' = [pool EXCEPT
                   !.futures = Append(@, NewFuture(Head(call.to_submit))),
                   !.nthreads = ThreadsAfterSubmit(@, client.max_workers)]
    /\ wire' = Append(wire, Event("submit", Head(call.to_submit).kind,
                                  Head(call.to_submit).arg))
    /\ call' = [call EXCEPT !.to_submit = Tail(@)]
    /\ UNCHANGED <<pipeline_frame, cache_vars, client>>

\* A worker thread that runs no fetch takes the oldest one of the queue and
\* sends its request.
StartTask ==
    /\ pool.open
    /\ FuturesIn("pending") # {}
    /\ Cardinality(FuturesIn("running")) < pool.nthreads
    /\ LET n == CHOOSE x \in FuturesIn("pending") :
                    \A y \in FuturesIn("pending") : x <= y
       IN  pool' = [pool EXCEPT !.futures[n].state = "running"]
    /\ UNCHANGED <<pipeline_frame, cache_vars, client, call, wire>>

\* The request of a running fetch is answered or fails; the fetch returns
\* and its future is done.
FinishTask(n) ==
    /\ pool.open
    /\ n \in FuturesIn("running")
    /\ \E outcome \in TaskOutcomes(pool.futures[n]) :
          /\ pool' = [pool EXCEPT
                         !.futures[n].state = "done",
                         !.futures[n].outcome = outcome,
                         !.futures[n].result =
                             TaskResult(pool.futures[n], outcome)]
          /\ client' \in StampRequests(1, IF outcome = "error" THEN 1 ELSE 0)
    /\ UNCHANGED <<pipeline_frame, cache_vars, call, wire>>

\* for future in as_completed(future_to_start): all_items.extend(...)
\* (lines 394-401)
CollectPage(n) ==
    /\ call.pc = "fanout"
    /\ call.to_submit = <<>>
    /\ n \in Completed("page")
    /\ call' = [call EXCEPT !.all_items = @ \o pool.futures[n].result]
    /\ pool' = [pool EXCEPT !.futures[n].collected = TRUE]
    /\ UNCHANGED <<pipeline_frame, cache_vars, client, wire>>

\* The with block of line 386 is left, and with it the executor; lines
\* 407-431: the sequential pass when items are missing, and the return.
LeaveFanOut ==
    /\ call.pc = "fanout"
    /\ call.to_submit = <<>>
    /\ AllCollected("page")
    /\ FuturesIn("running") = {}
    /\ pool' = [pool EXCEPT !.open = FALSE]
    /\ LET seq == IF Len(call.all_items) < call.total_count
                  THEN fetch_paginated_data(call.sv, call.page_size)
                  ELSE NoRun
       IN  /\ call' = [call EXCEPT
                          !.pc = "filter",
                          !.all_items = AppendNew(@, Summaries(seq.items))]
           /\ wire' = wire \o SequentialEvents(seq.starts)
    /\ UNCHANGED <<pipeline_frame, cache_vars, client>>

\* metrics.py 69-81 and client.py 211-219: the list is filtered, and the
\* executor of the batch is created.
PreFilterAndOpen ==
    /\ call.pc = "filter"
    /\ LET filtered_prs == PreFilter(call.all_items,
                                     StartTimestamp(call.key[2], call.key[3]),
                                     EndTimestamp(call.key[2], call.key[3]))
       IN  call' = [call EXCEPT
                       !.pc = "batch",
                       !.filtered_prs = filtered_prs,
                       !.to_submit = DetailTasks(call.all_items, filtered_prs),
                       !.pr_data = NoEntry]
    /\ pool' = NewPool
    /\ UNCHANGED <<pipeline_frame, cache_vars, client, wire>>

\* Mutant of CollectDetail: the first failed detail fetch ends the loop
\* over the detail futures, and the others are never looked at.
CollectDetailAborts(n) ==
    /\ call.pc = "batch"
    /\ call.to_submit = <<>>
    /\ n \in Completed("detail")
    /\ call' = [call EXCEPT !.pr_data.prs = @ \o pool.futures[n].result]
    /\ pool' = [pool EXCEPT
                   !.futures =
                       [m \in 1..Len(@) |->
                           IF m = n \/ (pool.futures[n].outcome # "ok"
                                         /\ @[m].kind = "detail")
                           THEN [@[m] EXCEPT !.state = "done",
                                             !.collected = TRUE]
                           ELSE @[m]]]
    /\ UNCHANGED <<pipeline_frame, cache_vars, client, wire>>

\* for future in as_completed(detail_futures) (lines 236-247)
CollectDetail(n) ==
    /\ call.pc = "batch"
    /\ call.to_submit = <<>>
    /\ n \in Completed("detail")
    /\ call' = [call EXCEPT !.pr_data.prs = @ \o pool.futures[n].result]
    /\ pool' = [pool EXCEPT !.futures[n].collected = TRUE]
    /\ UNCHANGED <<pipeline_frame, cache_vars, client, wire>>

\* for future in as_completed(activity_futures) (lines 252-262)
CollectActivity(n) ==
    /\ call.pc = "batch"
    /\ call.to_submit = <<>>
    /\ AllCollected("detail")
    /\ n \in Completed("activity")
    /\ call' = [call EXCEPT
                   !.pr_data.activities =
                       IF pool.futures[n].outcome = "raises" THEN @
                       ELSE (StrOf(pool.futures[n].arg)
                                 :> pool.futures[n].result) @@ @]
    /\ pool' = [pool EXCEPT !.futures[n].collected = TRUE]
    /\ UNCHANGED <<pipeline_frame, cache_vars, client, wire>>

\* The with block of line 217 is left and the batch returns (line 264);
\* self.cache.put(project_path, year, month, pr_data) (metrics.py 84).
StoreEntry ==
    /\ call.pc = "batch"
    /\ call.to_submit = <<>>
    /\ AllCollected("detail")
    /\ AllCollected("activity")
    /\ FuturesIn("running") = {}
    /\ \E disk \in PutOutcomes(cache_file) :
          LET put == CachePut(pr_cache, cache_file, fs, call.key,
                              call.pr_data, disk)
          IN  /\ DiskRoom(disk)
              /\ Inject(Fault(disk # "ok"), 0)
              /\ pr_cache' = put.pr_cache
              /\ cache_file' = put.cache_file
              /\ fs' = put.fs
              /\ call' = [call EXCEPT !.pc = IF put.raised THEN "raised"
                                             ELSE "done"]
    /\ stored' = (call.key :> call.pr_data) @@ stored
    /\ pool' = [pool EXCEPT !.open = FALSE]
    /\ wire' = Append(wire, Event("store", "put", 0))
    /\ UNCHANGED <<pipeline_frame, client>>

\* The pull requests of the pipeline's servers: merged in April 2025, merged
\* in May, open, and declined in April.
PrDeclined5 ==
    [id |-> 5, sumState |-> "DECLINED", state |-> "DECLINED",
     createdDate |-> At(2025, 4, 2, 8, 0, 0, 0),
     sumClosed |-> At(2025, 4, 3, 8, 0, 0, 0),
     closedDate |-> At(2025, 4, 3, 8, 0, 0, 0),
     activities |-> <<>>]

CandidateShapes == {PrApril1, PrMay3, PrOpen4, PrDeclined5}

\* A list of up to MaxCandidates pull requests of every shape, served on
\* one page.
ShortLists ==
    UNION {[1..n -> CandidateShapes] : n \in 0..MaxCandidates}

\* A list of n pull requests, the last one merged in April and the others
\* open.
LongList(n) ==
    [i \in 1..n |-> IF i = n THEN PrApril1 ELSE PrOpen4]

Numbered(shapes) == [i \in 1..Len(shapes) |-> [shapes[i] EXCEPT !.id = i]]

NewCall(sv, page_size) ==
    [pc |-> "get", sv |-> sv, page_size |-> page_size,
     key |-> create_cache_key(Repository, 2025, 4),
     all_items |-> <<>>, total_count |-> 0, next_starts |-> <<>>, left |-> 0,
     to_submit |-> <<>>, filtered_prs |-> <<>>, pr_data |-> NoEntry]

InitPipeline ==
    /\ tz = "UTC"
    /\ pr_cache = EmptyMap
    /\ cache_file = NULL
    /\ fs = NoFile
    /\ stored = EmptyMap
    /\ last = LastInit
    /\ faults = [disk |-> 0, net |-> 0]
    /\ clock = ClockStart
    /\ threads = NoThreads
    /\ sent = <<>>
    /\ pager = NoPager
    /\ pool = NoPool
    /\ wire = <<>>
    /\ \E max_workers \in 1..MaxWorkers :
          client = BitbucketClient(<<"token">>, NULL, NULL, max_workers,
                                   TicksPerSecond)
    /\ \/ \E shapes \in ShortLists :
            /\ server = Numbered(shapes)
            /\ call = NewCall([npos |-> Len(shapes), hidden |-> {},
                               len |-> MaxItems, total |-> "accurate",
                               quirk |-> "none", down |-> {}], MaxItems)
       \/ \E n \in 0..MaxItems, len \in 1..MaxPageLen,
             total \in {"accurate", "missing"},
             down \in {{}} \cup {{start} : start \in EarlyPositions} :
            /\ server = Numbered(LongList(n))
            /\ call = NewCall([npos |-> n, hidden |-> {}, len |-> len,
                               total |-> total, quirk |-> "none",
                               down |-> down], len)

NextPipeline ==
    \/ LookUp
    \/ RequestInitialPage
    \/ ReceiveInitialPage
    \/ RequestPrefetch
    \/ ReceivePrefetch
    \/ OpenPageExecutor
    \/ Submit
    \/ StartTask
    \/ \E n \in 1..Len(pool.futures) : FinishTask(n)
    \/ \E n \in 1..Len(pool.futures) : CollectPage(n)
    \/ LeaveFanOut
    \/ PreFilterAndOpen
    \/ \E n \in 1..Len(pool.futures) : CollectDetail(n)
    \/ \E n \in 1..Len(pool.futures) : CollectActivity(n)
    \/ StoreEntry

SpecPipeline == InitPipeline /\ [][NextPipeline]_vars

\* The positions of the history with an event of this kind.
EventsOf(ev, kind) ==
    {k \in 1..Len(wire) : wire[k].ev = ev /\ wire[k].kind = kind}

\* The first page of the call was received and reports that it is the last.
FirstPageIsLast ==
    /\ EventsOf("recv", "initial") # {}
    /\ ~ListReply(call.sv, 0, call.page_size).failed
    /\ ListReply(call.sv, 0, call.page_size).isLastPage = <<TRUE>>

\* C22: the prefetch phase sends at most five list-page requests, one after
\* the other on the calling thread (each is answered before anything else
\* happens, and no executor is open meanwhile); no page fetch is submitted
\* to the executor before the last prefetch request was answered; and when
\* the first page says it is the last, there is no prefetch request and no
\* page fetch at all.
C22_PrefetchThenFanOut ==
    /\ Cardinality(EventsOf("send", "prefetch")) <= PrefetchPages
    /\ \A k \in EventsOf("send", "prefetch") :
          \/ k = Len(wire) /\ call.pc = "prefetch_wait"
          \/ k < Len(wire) /\ wire[k + 1] = [wire[k] EXCEPT !.ev = "recv"]
    /\ call.pc \in {"prefetch", "prefetch_wait"} => pool = NoPool
    /\ \A i \in EventsOf("submit", "page") :
          \A k \in EventsOf("send", "prefetch") \cup EventsOf("recv", "prefetch") :
             k < i
    /\ FirstPageIsLast =>
          /\ EventsOf("send", "prefetch") = {}
          /\ EventsOf("submit", "page") = {}
          /\ call.pc \notin {"prefetch", "prefetch_wait", "fanout"}

\* Five prefetch requests were sent and answered, and a worker thread runs
\* a page fetch of the fan-out.
C22_Witness ==
    /\ Cardinality(EventsOf("recv", "prefetch")) = PrefetchPages
    /\ call.pc = "fanout"
    /\ \E n \in FuturesIn("running") : pool.futures[n].kind = "page"

\* A call whose first page was the last one went on to its batch.
FirstPageLastSkipsPaging ==
    FirstPageIsLast /\ call.pc = "batch" /\ Len(call.all_items) > 0

\* The call has left the batch and stored its entry.
BatchReturned == EventsOf("store", "put") # {}

\* The future of the fetch of this kind for this pull request.
FutureOf(kind, pr_id) ==
    CHOOSE n \in 1..Len(pool.futures) :
        pool.futures[n].kind = kind /\ pool.futures[n].arg = pr_id

CandidateIds == {call.filtered_prs[i].id : i \in 1..Len(call.filtered_prs)}

\* C23: when the batch has returned, whatever requests failed: the detail
\* and the activity fetch of every candidate were submitted and are done;
\* the detail records returned are exactly those of the candidates whose
\* detail fetch succeeded, once each; and a candidate has its activities
\* when its activity fetch succeeded and an empty list otherwise.
C23_PartialFailure ==
    BatchReturned =>
        /\ [n \in 1..Len(pool.futures) |->
                [kind |-> pool.futures[n].kind, arg |-> pool.futures[n].arg]]
              = DetailTasks(call.all_items, call.filtered_prs)
        /\ \A n \in 1..Len(pool.futures) : pool.futures[n].state = "done"
        /\ \A pr_id \in CandidateIds :
              LET detail == pool.futures[FutureOf("detail", pr_id)]
                  activity == pool.futures[FutureOf("activity", pr_id)]
                  records == {i \in 1..Len(call.pr_data.prs) :
                                 call.pr_data.prs[i].id = pr_id}
                  spr == server[ServerPrById(server, pr_id)]
              IN  /\ Cardinality(records) = IF detail.outcome = "ok" THEN 1 ELSE 0
                  /\ \A i \in records : call.pr_data.prs[i] = DetailOf(spr)
                  /\ ActivitiesOf(call.pr_data.activities, pr_id)
                        = IF activity.outcome = "ok" THEN spr.activities
                          ELSE <<>>
                  /\ activity.outcome = "error"
                        => call.pr_data.activities[StrOf(pr_id)] = <<>>
        /\ \A i \in 1..Len(call.pr_data.prs) :
              call.pr_data.prs[i].id \in CandidateIds
        /\ stored[call.key] = call.pr_data

\* A batch of two candidates has returned: the detail fetch of one failed
\* and the activity fetch of the other, and the entry holds the detail of
\* the other and the activities of the one.
C23_Witness ==
    /\ BatchReturned
    /\ Cardinality(CandidateIds) = MaxCandidates
    /\ \E a, b \in CandidateIds :
          /\ a # b
          /\ pool.futures[FutureOf("detail", a)].outcome = "error"
          /\ pool.futures[FutureOf("activity", a)].outcome = "ok"
          /\ pool.futures[FutureOf("detail", b)].outcome = "ok"
          /\ pool.futures[FutureOf("activity", b)].outcome = "raises"
          /\ Len(call.pr_data.prs) = 1
          /\ call.pr_data.prs[1].id = b
          /\ ActivitiesOf(call.pr_data.activities, a) # <<>>

\* The same call when the worker threads are scheduled fairly: a worker
\* thread without a fetch takes one from the queue while there is one, and
\* every request a worker sent is answered or fails in the end.  The second
\* is an assumption on the server: requests.get is called without a timeout
\* (line 72), and a request that is never answered keeps its worker thread
\* for ever.  Nothing is assumed of the calling thread.
SpecPipelineFair ==
    /\ InitPipeline
    /\ [][NextPipeline]_vars
    /\ WF_vars(StartTask)
    /\ WF_vars(\E n \in 1..Len(pool.futures) : FinishTask(n))

\* A fetch waits in the queue of the executor.
SomePending ==
    pool.open /\ \E n \in 1..Len(pool.futures) : pool.futures[n].state = "pending"

BatchFillsThePool ==
    /\ call.pc = "batch"
    /\ Cardinality(FuturesIn("running")) = client.max_workers
    /\ FuturesIn("pending") # {}

\* The summary the list gives for this pull request is one the claim lets
\* through: closed, inside the month of the call, merged.
SummaryPasses(pr_id) ==
    LET summary == SummaryOf(server[ServerPrById(server, pr_id)])
    IN  /\ summary.closedDate # NULL
        /\ TsLeq(StartTimestamp(call.key[2], call.key[3]), summary.closedDate)
        /\ TsLeq(summary.closedDate, EndTimestamp(call.key[2], call.key[3]))
        /\ Upper(summary.state) = "MERGED"

\* The positions of the history where the paginator sent or received.
ListEvents ==
    {k \in 1..Len(wire) :
        wire[k].kind \in {"initial", "prefetch", "page", "sequential"}}

\* C25: a detail or activity fetch is handed to the executor, and so its
\* request sent, only for a pull request whose summary is closed, inside
\* the month and merged and is among the filtered ones, and only when the
\* paginator has returned: every request and every page fetch of the list
\* comes before it and is done.  The entry is stored only when every
\* detail and activity fetch submitted is done.
C25_FilterBeforeFetch ==
    /\ \A n \in 1..Len(pool.futures) :
          pool.futures[n].kind \in {"detail", "activity"} =>
             /\ SummaryPasses(pool.futures[n].arg)
             /\ pool.futures[n].arg \in CandidateIds
             /\ call.pc \in {"batch", "done", "raised"}
             /\ \A m \in 1..Len(pool.futures) :
                   pool.futures[m].kind # "page"
    /\ \A i \in EventsOf("submit", "detail") \cup EventsOf("submit", "activity") :
          /\ SummaryPasses(wire[i].arg)
          /\ \A k \in ListEvents : k < i
    /\ (BatchReturned \/ stored # EmptyMap \/ pr_cache # EmptyMap) =>
          /\ BatchReturned
          /\ \A n \in 1..Len(pool.futures) : pool.futures[n].state = "done"
          /\ [n \in 1..Len(pool.futures) |->
                 [kind |-> pool.futures[n].kind, arg |-> pool.futures[n].arg]]
               = DetailTasks(call.all_items, call.filtered_prs)

\* The list came in several pages, by the workers and by the sequential
\* pass; of its pull requests only the merged one has a detail request,
\* which is under way, and nothing is stored yet.
C25_Witness ==
    /\ call.pc = "batch"
    /\ EventsOf("submit", "page") # {}
    /\ EventsOf("send", "sequential") # {}
    /\ Len(call.all_items) = MaxItems
    /\ Len(call.filtered_prs) = 1
    /\ \E n \in FuturesIn("running") : pool.futures[n].kind = "detail"
    /\ stored = EmptyMap

\* A short list with a pull request merged outside the month, or declined
\* inside it, next to a merged one: the entry is stored with the detail
\* of the merged one only.
OnlyTheMergedOneIsFetched ==
    /\ BatchReturned
    /\ Len(call.all_items) = MaxCandidates
    /\ \E i \in 1..Len(call.all_items) :
          call.all_items[i].state = "DECLINED" /\ call.all_items[i].closedDate # NULL
    /\ Len(pool.futures) = 2
    /\ Len(call.pr_data.prs) = 1

(***************************************************************************)
(* The pipeline with the pre-filter next to the one without it: the        *)
(* get_merged_prs of the module bitbucket.py, which the package of the     *)
(* same name replaced.                                                     *)
(***************************************************************************)
MaxListed == 2

\* The list of bitbucket.py lines 66-100 when the first page is the last: a
\* failed request or an empty page ends the loop.
LegacyList(srv, list_ok) ==
    IF list_ok THEN [i \in 1..Len(srv) |-> SummaryOf(srv[i])] ELSE <<>>

\* The predicate of the list comprehension of bitbucket.py lines 139-144.
LegacyIsMerged(pr, start_timestamp, end_timestamp) ==
    /\ Truthy(pr.closedDate)
    /\ InRange(start_timestamp, pr.closedDate, end_timestamp)
    /\ Upper(pr.state) = "MERGED"

\* BitbucketDataSource.get_merged_prs of bitbucket.py (lines 49-150): the
\* detail of every listed pull request with an id is fetched, one after
\* the other, those whose request fails are left out, and the predicate is
\* applied to the details.
legacy_get_merged_prs(srv, year, month, list_ok, detail_fails) ==
    LET all_prs == LegacyList(srv, list_ok)
        asked == Submitted(all_prs)
        answered == SelectSeq(asked, LAMBDA pr : pr.id \notin detail_fails)
        detailed_prs == [i \in 1..Len(answered) |->
                            DetailOf(srv[ServerPrById(srv, answered[i].id)])]
        Keep(pr) == LegacyIsMerged(pr, StartTimestamp(year, month),
                                   EndTimestamp(year, month))
    IN  [pr_count |-> Len(SelectSeq(detailed_prs, Keep)),
         requests |-> 1 + Len(asked)]

\* A call of the legacy get_merged_prs for the period of the model; it has
\* no cache.
LegacyGetMergedPrs ==
    /\ \E list_ok \in BOOLEAN, detail_fails \in SUBSET (1..Len(server)) :
          LET failed == Fault(~list_ok) + Cardinality(detail_fails)
              run == legacy_get_merged_prs(server, last.key[2], last.key[3],
                                           list_ok, detail_fails)
          IN  /\ list_ok \/ detail_fails = {}
              /\ Inject(0, failed)
              /\ last' = Last("legacy_get_merged_prs", last.key,
                              [NoFetch EXCEPT !.requests = run.requests,
                                              !.list_failed = ~list_ok],
                              NoEntry, run.pr_count, ReviewAcc0)
    /\ UNCHANGED <<tz, server, pr_cache, cache_file, fs, stored, client,
                   limiter_vars, pager, pipeline_vars>>

\* The (state, closedDate) pairs of summaries and details.
LegacyShapes(y, m) ==
    {<<"MERGED", FirstInstant(y, m)>>, <<"MERGED", NULL>>,
     <<"MERGED", NextMs(LastInstant(y, m))>>,
     <<"merged", LastInstant(y, m)>>, <<"OPEN", LastInstant(y, m)>>}

\* A server whose i-th pull request has the i-th pair of shapes: the one
\* of its summary and the one of its detail.
PairedServer(pairs, y, m) ==
    [i \in 1..Len(pairs) |->
        [id |-> i, sumState |-> pairs[i][1][1], sumClosed |-> pairs[i][1][2],
         state |-> pairs[i][2][1], closedDate |-> pairs[i][2][2],
         createdDate |-> PrevMs(FirstInstant(y, m)), activities |-> <<>>]]

\* A month of 30 days and a February of 29.
LegacyPeriods == {<<2025, 4>>, <<2024, 2>>}

InitLegacy ==
    /\ tz = "UTC"
    /\ pr_cache = EmptyMap
    /\ cache_file = NULL
    /\ fs = NoFile
    /\ stored = EmptyMap
    /\ faults = [disk |-> 0, net |-> 0]
    /\ Aside
    /\ \E p \in LegacyPeriods :
         \E pairs \in SeqsUpTo(LegacyShapes(p[1], p[2]) \X LegacyShapes(p[1], p[2]),
                               MaxListed) :
            /\ server = PairedServer(pairs, p[1], p[2])
            /\ last = [LastInit EXCEPT !.key = create_cache_key(Repository, p[1], p[2])]

NextLegacy ==
    \/ GetMergedPrs(last.key[1], last.key[2], last.key[3])
    \/ LegacyGetMergedPrs

SpecLegacy == InitLegacy /\ [][NextLegacy]_vars

\* The summary of every pull request agrees with its detail.
SummariesAgree ==
    \A i \in 1..Len(server) :
        /\ server[i].sumState = server[i].state
        /\ server[i].sumClosed = server[i].closedDate

\* What the legacy get_merged_prs returns when no request fails.
LegacyCount ==
    legacy_get_merged_prs(server, last.key[2], last.key[3], TRUE, {}).pr_count

UnreliableSummaryChangesCount ==
    /\ last.op = "get_merged_prs"
    /\ ~last.hit
    /\ ~last.raised
    /\ faults.net = 0
    /\ ~SummariesAgree
    /\ last.value < LegacyCount

(***************************************************************************)
(* Failed fetches are cached too.                                          *)
(***************************************************************************)
\* What a fetch of the period of the last query finds on the server when
\* no request fails.
HealthyCandidates ==
    PreFilter(InitialPageFetch(server, TRUE),
              StartTimestamp(last.key[2], last.key[3]),
              EndTimestamp(last.key[2], last.key[3]))

\* C27: a query that misses the cache puts what it fetched under the key,
\* once and whatever failed (nothing at all when the list request failed),
\* and touches no other entry; a query for a key that has an entry in
\* memory sends no request, changes no entry and returns the value
\* computed from that entry, whatever the server would answer now; and an
\* entry leaves the memory only by cleanup.
C27_FailuresAreCached ==
    [][/\ last'.op \in Queries =>
            IF last'.key \in DOMAIN pr_cache
            THEN /\ last'.hit
                 /\ last'.requests = 0
                 /\ ~last'.raised
                 /\ last'.data = pr_cache[last'.key]
                 /\ last'.value = MetricOf(last'.op, pr_cache[last'.key],
                                           last'.key[2], last'.key[3])
                 /\ pr_cache' = pr_cache
                 /\ stored' = stored
            ELSE ~last'.hit =>
                 /\ DOMAIN pr_cache' = DOMAIN pr_cache \cup {last'.key}
                 /\ pr_cache'[last'.key] = last'.data
                 /\ stored' = (last'.key :> last'.data) @@ stored
                 /\ \A k \in DOMAIN pr_cache : pr_cache'[k] = pr_cache[k]
                 /\ last'.list_failed => last'.data = NoEntry
       /\ ~(DOMAIN pr_cache \subseteq DOMAIN pr_cache') => last'.op = "cleanup"]_vars

\* A query answered from the empty entry that a failed list request left:
\* it returns 0 without a request, while the server holds pull requests
\* of the period.
C27_Witness ==
    /\ last.op \in Queries
    /\ last.hit
    /\ last.requests = 0
    /\ last.data = NoEntry
    /\ last.value = 0
    /\ HealthyCandidates # <<>>
    /\ faults.net > 0

\* A query answered from the entry of a batch in which a detail request
\* failed.
PartialEntryIsServed ==
    /\ last.op \in Queries
    /\ last.hit
    /\ last.data.prs # <<>>
    /\ Len(last.data.prs) < Len(HealthyCandidates)

(***************************************************************************)
(* The snapshot never holds more than the memory tier.                     *)
(***************************************************************************)
\* The keys json.load finds in the snapshot file of the instance: none
\* when it has no cache file, or the file is absent or not valid JSON.
SnapshotKeys ==
    IF cache_file # NULL /\ fs[cache_file[1]].exists /\ fs[cache_file[1]].valid
    THEN DOMAIN JsonLoad(fs[cache_file[1]])
    ELSE {}

\* C28: in every state of a cache instance the keys of its snapshot file
\* are keys of its memory tier, and after a put that wrote the snapshot
\* the two sets are equal; so a get for a key that is not in memory finds
\* nothing in the file either: it returns None, whether the file can be
\* read or not, and loads nothing into memory.
C28_SnapshotWithinMemory ==
    /\ [](/\ SnapshotKeys \subseteq DOMAIN pr_cache
          /\ (last.op = "put" /\ last.written)
                => SnapshotKeys = DOMAIN pr_cache)
    /\ [][(last'.op = "get" /\ last'.key \notin DOMAIN pr_cache) =>
             /\ ~last'.hit
             /\ pr_cache' = pr_cache
             /\ \A read_ok \in BOOLEAN :
                   CacheGet(pr_cache, cache_file, fs, last'.key, read_ok).tier
                       = "miss"]_vars

\* A get for a key that is not in memory, while the snapshot file of the
\* instance holds another key: it reached the file and found nothing.
C28_Witness ==
    /\ last.op = "get"
    /\ ~last.hit
    /\ last.key \notin DOMAIN pr_cache
    /\ SnapshotKeys # {}
    /\ SnapshotKeys = DOMAIN pr_cache

\* After a put whose open() failed the snapshot has fewer keys than the
\* memory tier.
SnapshotBehindMemory ==
    /\ last.op = "put"
    /\ ~last.written
    /\ SnapshotKeys # {}
    /\ SnapshotKeys # DOMAIN pr_cache

(***************************************************************************)
(* Review time and merged count of pull requests whose approval and merge  *)
(* fall in different months.                                               *)
(***************************************************************************)
MaxCrossPRs == 2

\* Approved on 30 April, merged on 1 May.
PrApprovedAprilMergedMay ==
    [id |-> 6, sumState |-> "MERGED", state |-> "MERGED",
     createdDate |-> At(2025, 4, 29, 9, 0, 0, 0),
     sumClosed |-> At(2025, 5, 1, 9, 0, 0, 0),
     closedDate |-> At(2025, 5, 1, 9, 0, 0, 0),
     activities |-> <<Activity("MERGED", At(2025, 5, 1, 9, 0, 0, 0)),
                      Activity("APPROVED", At(2025, 4, 30, 9, 0, 0, 0))>>]

\* Merged on 30 April, approved on 1 May.
PrMergedAprilApprovedMay ==
    [id |-> 7, sumState |-> "MERGED", state |-> "MERGED",
     createdDate |-> At(2025, 4, 29, 9, 0, 0, 0),
     sumClosed |-> At(2025, 4, 30, 9, 0, 0, 0),
     closedDate |-> At(2025, 4, 30, 9, 0, 0, 0),
     activities |-> <<Activity("APPROVED", At(2025, 5, 1, 9, 0, 0, 0)),
                      Activity("MERGED", At(2025, 4, 30, 9, 0, 0, 0))>>]

\* Approved in April; the list says merged on 30 April, the detail on 1 May.
PrSummaryAprilDetailMay ==
    [id |-> 8, sumState |-> "MERGED", state |-> "MERGED",
     createdDate |-> At(2025, 4, 29, 9, 0, 0, 0),
     sumClosed |-> At(2025, 4, 30, 23, 0, 0, 0),
     closedDate |-> At(2025, 5, 1, 1, 0, 0, 0),
     activities |-> <<Activity("APPROVED", At(2025, 4, 30, 9, 0, 0, 0))>>]

CrossShapes ==
    {PrApril1, PrApprovedAprilMergedMay, PrMergedAprilApprovedMay,
     PrSummaryAprilDetailMay}

InitCross ==
    /\ tz = "UTC"
    /\ pr_cache = EmptyMap
    /\ cache_file = NULL
    /\ fs = NoFile
    /\ stored = EmptyMap
    /\ last = LastInit
    /\ faults = [disk |-> 0, net |-> 0]
    /\ Aside
    /\ \E shapes \in SeqsUpTo(CrossShapes, MaxCrossPRs) :
          server = Numbered(shapes)

NextCross ==
    \/ \E p \in QueryPeriods : GetMergedPrs(Repository, p[1], p[2])
    \/ \E p \in QueryPeriods : GetPrReviewTime(Repository, p[1], p[2])

SpecCross == InitCross /\ [][NextCross]_vars

\* The positions of the detail records the last review-time query counted.
CountedInReview ==
    {i \in 1..Len(last.data.prs) : last.acc.classes[i] = "counted"}

\* The calendar month, in UTC, of the period of the last query holds t.
InPeriod(t) ==
    /\ t # NULL
    /\ TsLeq(FirstInstant(last.key[2], last.key[3]), t)
    /\ TsLeq(t, LastInstant(last.key[2], last.key[3]))

\* C29: every pull request a get_pr_review_time counts for a period has a
\* list summary that is merged and closed inside the period, and its first
\* approval inside the period too, so that approval and merge are in the
\* same month; and when its summary agrees with its detail, the detail is
\* one that get_merged_prs counts for the period.
C29_ReviewNeedsMergeInPeriod ==
    (last.op = "get_pr_review_time" /\ ~last.raised) =>
        \A i \in CountedInReview :
            LET spr == server[ServerPrById(server, last.data.prs[i].id)]
            IN  /\ Upper(spr.sumState) = "MERGED"
                /\ InPeriod(spr.sumClosed)
                /\ InPeriod(last.acc.approvals[i])
                /\ last.acc.approvals[i] = FirstApproval(spr.activities)
                /\ (spr.sumState = spr.state /\ spr.sumClosed = spr.closedDate)
                      => IsMergedInWindow(last.data.prs[i],
                                          StartTimestamp(last.key[2], last.key[3]),
                                          EndTimestamp(last.key[2], last.key[3]))

\* The review time of May was asked after that of April, on a server with
\* a pull request approved in April and merged in May: April's entry does
\* not hold it, May's holds it with its approval outside the window, and
\* neither month counts it.
C29_Witness ==
    /\ last.op = "get_pr_review_time"
    /\ last.key = create_cache_key(Repository, 2025, 5)
    /\ ~last.hit
    /\ faults.net = 0
    /\ create_cache_key(Repository, 2025, 4) \in DOMAIN stored
    /\ stored[create_cache_key(Repository, 2025, 4)].prs = <<>>
    /\ Len(server) = 1
    /\ server[1].sumClosed = PrApprovedAprilMergedMay.sumClosed
    /\ last.acc.classes = <<"outside_range">>
    /\ last.value = 0

\* A pull request whose summary says April and whose detail says May is
\* counted in April's review time, and not by April's get_merged_prs.
UnreliableSummaryIsReviewed ==
    /\ last.op = "get_pr_review_time"
    /\ ~last.raised
    /\ CountedInReview # {}
    /\ \E i \in CountedInReview :
          ~IsMergedInWindow(last.data.prs[i],
                            StartTimestamp(last.key[2], last.key[3]),
                            EndTimestamp(last.key[2], last.key[3]))

(***************************************************************************)
(* The window of the review time, month by month.                          *)
(***************************************************************************)
WindowPeriods == {<<y, m>> : y \in SydneyYears, m \in 1..12}

\* Approval instants around the bounds of a month: the four at its UTC
\* bounds, one that Sydney's clocks already count to the month ten hours
\* before it starts in UTC, and one in its last UTC hour, when Sydney is in
\* the next month.
WindowInstants(y, m) ==
    {PrevMs(FirstInstant(y, m)), FirstInstant(y, m), LastInstant(y, m),
     NextMs(LastInstant(y, m)), TsAdd(FirstInstant(y, m), 0 - 10 * MsPerHour),
     TsAdd(LastInstant(y, m), 0 - MsPerHour)}

\* The entry of a batch of one merged pull request, created two days
\* before the month and approved at the instant.
WindowEntry(approval, y, m) ==
    ReviewEntry(<< <<"MERGED", <<CalFirstDay(y, m) - 2, 0>>,
                     <<Activity("APPROVED", approval)>> >> >>, y, m)

InitWindow ==
    /\ tz \in LocalZones
    /\ \E p \in WindowPeriods :
         \E approval \in WindowInstants(p[1], p[2]) :
            WarmInit(create_cache_key(Repository, p[1], p[2]),
                     WindowEntry(approval, p[1], p[2]))

NextWindow ==
    \/ \E k \in DOMAIN pr_cache : GetPrReviewTime(k[1], k[2], k[3])
    \/ \E k \in DOMAIN pr_cache : GetMergedPrs(k[1], k[2], k[3])

SpecWindow == InitWindow /\ [][NextWindow]_vars

\* The wall-clock time in Sydney is inside the calendar month.
InSydneyMonth(t, y, m) ==
    InRange(FirstInstant(y, m), AsTimezoneSydney(t).wall, LastInstant(y, m))

\* C30: for the period of every query, the bounds get_pr_review_time
\* compares approvals with are the bounds get_merged_prs and the
\* pre-filter compare closed timestamps with, the first and the last
\* millisecond of the month in UTC, although the Sydney datetimes they are
\* taken from read differently; and an approval is counted exactly when it
\* lies in the month in UTC.
C30_WindowIsUtcMonth ==
    last.op \in Queries =>
        LET y == last.key[2]
            m == last.key[3]
        IN  /\ ReviewWindowStart(y, m) = StartTimestamp(y, m)
            /\ ReviewWindowEnd(y, m) = EndTimestamp(y, m)
            /\ StartTimestamp(y, m) = FirstInstant(y, m)
            /\ EndTimestamp(y, m) = LastInstant(y, m)
            /\ AsTimezoneSydney(StartTimestamp(y, m)).wall # StartTimestamp(y, m)
            /\ AsTimezoneSydney(EndTimestamp(y, m)).wall # EndTimestamp(y, m)
            /\ last.op = "get_pr_review_time" =>
                  (last.acc.classes = <<"counted">>
                     <=> InRange(FirstInstant(y, m), last.acc.approvals[1],
                                 LastInstant(y, m)))

\* A pull request approved when Sydney is already in the month and UTC is
\* not: the review time of the month leaves it out.
C30_Witness ==
    /\ last.op = "get_pr_review_time"
    /\ last.acc.classes = <<"outside_range">>
    /\ InSydneyMonth(last.acc.approvals[1], last.key[2], last.key[3])
    /\ last.key[3] = 10

\* A pull request approved in the last UTC hour of the month, when Sydney
\* is in the next one, is counted.
CountedOutsideSydneyMonth ==
    /\ last.op = "get_pr_review_time"
    /\ last.acc.classes = <<"counted">>
    /\ ~InSydneyMonth(last.acc.approvals[1], last.key[2], last.key[3])

=============================================================================
